---- MODULE Spec2Model ----
(***************************************************************************)
(* Circles UBI ledger: HumanEnvironment (the ledger records), Hub (the     *)
(* operations on it) and HubAgent (the driver-facing facade with the       *)
(* routing graph), modelled from src/circlesUBI and src/ABM_simulation.    *)
(*                                                                         *)
(* Python integers are unbounded and the amounts of the program reach      *)
(* 10^18 and beyond, so an integer amount is held as a sign and a          *)
(* little-endian sequence of base-10^4 digits; the operators N* work on     *)
(* magnitudes, the operators Z* on signed values.                          *)
(***************************************************************************)
EXTENDS Integers, Sequences, FiniteSets, TLC

(***************************************************************************)
(* Unbounded integers                                                      *)
(***************************************************************************)
Base == 10 ^ 4

Hd(s) == IF s = <<>> THEN 0 ELSE Head(s)
Tl(s) == IF s = <<>> THEN <<>> ELSE Tail(s)

RECURSIVE Norm(_)
Norm(s) ==
  IF s = <<>> THEN <<>>
  ELSE IF s[Len(s)] = 0 THEN Norm(SubSeq(s, 1, Len(s) - 1)) ELSE s

RECURSIVE NAddC(_, _, _)
NAddC(a, b, c) ==
  IF a = <<>> /\ b = <<>> THEN (IF c = 0 THEN <<>> ELSE <<c>>)
  ELSE LET x == Hd(a) + Hd(b) + c
       IN  <<x % Base>> \o NAddC(Tl(a), Tl(b), x \div Base)

NAdd(a, b) == NAddC(a, b, 0)

\* a - b for magnitudes with a >= b
RECURSIVE NSubB(_, _, _)
NSubB(a, b, br) ==
  IF a = <<>> THEN <<>>
  ELSE LET x == Head(a) - Hd(b) - br
       IN  IF x < 0 THEN <<x + Base>> \o NSubB(Tail(a), Tl(b), 1)
                    ELSE <<x>> \o NSubB(Tail(a), Tl(b), 0)

NSub(a, b) == Norm(NSubB(a, b, 0))

\* -1, 0, 1 as a < b, a = b, a > b (normalised magnitudes)
RECURSIVE NCmpTop(_, _, _)
NCmpTop(a, b, i) ==
  IF i = 0 THEN 0
  ELSE IF a[i] < b[i] THEN -1
  ELSE IF a[i] > b[i] THEN 1
  ELSE NCmpTop(a, b, i - 1)

NCmp(a, b) ==
  IF Len(a) < Len(b) THEN -1
  ELSE IF Len(a) > Len(b) THEN 1
  ELSE NCmpTop(a, b, Len(a))

RECURSIVE NMulSmallC(_, _, _)
NMulSmallC(a, k, c) ==
  IF a = <<>> THEN (IF c = 0 THEN <<>> ELSE <<c % Base>> \o NMulSmallC(<<>>, k, c \div Base))
  ELSE LET x == Head(a) * k + c
       IN  <<x % Base>> \o NMulSmallC(Tail(a), k, x \div Base)

RECURSIVE NMulRaw(_, _)
NMulRaw(a, b) ==
  IF b = <<>> THEN <<>>
  ELSE LET high == NMulRaw(a, Tail(b))
       IN  IF high = <<>> THEN NMulSmallC(a, Head(b), 0)
           ELSE NAdd(NMulSmallC(a, Head(b), 0), <<0>> \o high)

NMul(a, b) == Norm(NMulRaw(a, b))

\* floor(a / Base^k)
NShr(a, k) == IF Len(a) <= k THEN <<>> ELSE SubSeq(a, k + 1, Len(a))

RECURSIVE NFromNat(_)
NFromNat(n) == IF n = 0 THEN <<>> ELSE <<n % Base>> \o NFromNat(n \div Base)

\* signed values: [neg, mag], zero is [neg |-> FALSE, mag |-> <<>>]
ZMk(neg, mag) == [neg |-> (neg /\ mag # <<>>), mag |-> mag]
Z(n) == IF n < 0 THEN ZMk(TRUE, NFromNat(-n)) ELSE ZMk(FALSE, NFromNat(n))
Z0 == Z(0)
ZNeg(a) == ZMk(~a.neg, a.mag)
ZAdd(a, b) ==
  IF a.neg = b.neg THEN ZMk(a.neg, NAdd(a.mag, b.mag))
  ELSE IF NCmp(a.mag, b.mag) >= 0 THEN ZMk(a.neg, NSub(a.mag, b.mag))
  ELSE ZMk(b.neg, NSub(b.mag, a.mag))
ZSub(a, b) == ZAdd(a, ZNeg(b))
ZMul(a, b) == ZMk(a.neg # b.neg, NMul(a.mag, b.mag))
ZCmp(a, b) ==
  IF a.neg /\ ~b.neg THEN -1
  ELSE IF ~a.neg /\ b.neg THEN 1
  ELSE IF a.neg THEN NCmp(b.mag, a.mag)
  ELSE NCmp(a.mag, b.mag)
ZLt(a, b) == ZCmp(a, b) < 0
ZLe(a, b) == ZCmp(a, b) <= 0
ZGt(a, b) == ZCmp(a, b) > 0
ZGe(a, b) == ZCmp(a, b) >= 0
ZMin(a, b) == IF ZLe(a, b) THEN a ELSE b

\* floor(a / k) for a small divisor k
RECURSIVE NDivSmallR(_, _, _, _)
NDivSmallR(a, k, i, rem) ==
  IF i = 0 THEN <<>>
  ELSE LET cur == rem * Base + a[i]
       IN  IF cur < k THEN NDivSmallR(a, k, i - 1, cur) \o <<0>>
           ELSE NDivSmallR(a, k, i - 1, cur % k) \o <<cur \div k>>

NDivSmall(a, k) == Norm(NDivSmallR(a, k, Len(a), 0))

\* floor(a / k^n)
RECURSIVE NDivPow(_, _, _)
NDivPow(a, k, n) == IF n = 0 THEN a ELSE NDivPow(NDivSmall(a, k), k, n - 1)

(***************************************************************************)
(* circlesUBI/utils/math.py: 64.64 fixed-point helpers                     *)
(***************************************************************************)
\* 2^64 = 18446744073709551616
TwoTo64Mag == <<1616, 955, 737, 6744, 1844>>
TwoTo64 == ZMk(FALSE, TwoTo64Mag)

\* Decimal('-9223372036854775808') * 2^64 and Decimal('9223372036854775807') * 2^64
MIN_64x64 == ZNeg(ZMul(ZMk(FALSE, <<5808, 5477, 368, 3372, 922>>), TwoTo64))
MAX_64x64 == ZMul(ZMk(FALSE, <<5807, 5477, 368, 3372, 922>>), TwoTo64)

EXA == ZMul(Z(10 ^ 9), Z(10 ^ 9))

\* an integer taken as a 64.64 value without the shift
from_int_unshifted(x) == x

from_int(x) == ZMul(x, TwoTo64)

\* int(x * Decimal(y) / 2^64): int() truncates towards zero
\* (2^64 = 65536^4, divided out in four exact steps)
mul_fixed(x, y) == ZMk(x.neg # y.neg, NDivPow(NMul(x.mag, y.mag), 65536, 4))

\* add_fixed / sub_fixed raise OverflowError outside [MIN_64x64, MAX_64x64]
fixed_overflow(result) == ZLt(result, MIN_64x64) \/ ZGt(result, MAX_64x64)
add_fixed(x, y) == [raised |-> fixed_overflow(ZAdd(x, y)), value |-> ZAdd(x, y)]
sub_fixed(x, y) == [raised |-> fixed_overflow(ZSub(x, y)), value |-> ZSub(x, y)]

(***************************************************************************)
(* circlesUBI/demurrage.py                                                 *)
(***************************************************************************)
\* Decimal('18443079296116538654')
GAMMA_64x64 == ZMk(FALSE, <<8654, 1653, 2961, 3079, 1844>>)
\* (2 ** 192) - 1
\* = 6277101735386680763835789423207666416102355444464034512895
MAX_VALUE ==
  ZMk(FALSE, <<2895, 3451, 4640, 5444, 235, 4161, 7666, 2320, 7894, 3835, 8076,
               3866, 1735, 7710, 62>>)
DEMURRAGE_WINDOW == 24

day_since_day0(time) == time \div DEMURRAGE_WINDOW

\* pow_fixed(GAMMA_64x64, day_diff) is a Decimal of 76 significant digits,
\* 56 of them after the point; the table holds its digits as the integer
\* factor * 10^56, evaluated with the 76-digit context math.py sets.
FactorDecimals == 14 * 4
\* a factor above 1 for every day count: the digits of pow_fixed(GAMMA_64x64, -1)
calculate_inflation_factor(d) ==
  <<1379, 4683, 6499, 9912, 8612, 2499, 545, 9541, 3279, 6229, 4797,
    3501, 5769, 3082, 1655, 2124, 5795, 409, 1845>>
calculate_demurrage_factor(d) ==
  CASE d = -25 ->
      <<6172, 151, 7065, 1675, 2927, 6926, 6970, 7394, 1445, 259, 9578,
      9151, 6330, 1780, 9230, 6163, 5612, 8600, 1853>>
  [] d = -24 ->
      <<4557, 7401, 3483, 9814, 3798, 3477, 6711, 8358, 1870, 3380, 5777,
      4244, 9822, 629, 7140, 2474, 5347, 4917, 1853>>
  [] d = -23 ->
      <<7497, 227, 4556, 7866, 8179, 2699, 2809, 5834, 710, 8551, 5432,
      5435, 5018, 372, 9411, 8733, 2398, 1235, 1853>>
  [] d = -2 ->
      <<3058, 6447, 2209, 2787, 5009, 5766, 3242, 174, 2397, 4807, 4201,
      7890, 1159, 5534, 1261, 9631, 8136, 4075, 1845>>
  [] d = -1 ->
      <<1379, 4683, 6499, 9912, 8612, 2499, 545, 9541, 3279, 6229, 4797,
      3501, 5769, 3082, 1655, 2124, 5795, 409, 1845>>
  [] d = 1 ->
      <<0, 0, 0, 0, 0, 0, 0, 0, 0, 0, 0, 0, 0, 0, 8654, 1653, 2961, 3079,
      1844>>
  [] d = 2 ->
      <<8916, 6738, 2301, 5252, 8545, 3959, 8270, 7318, 3503, 9042, 6604,
      7922, 8442, 4325, 9027, 9752, 2465, 9415, 1843>>
  [] d = 3 ->
      <<4739, 1739, 6098, 7825, 4240, 2511, 8027, 1319, 5634, 1368, 3820,
      1096, 8693, 4637, 7736, 787, 9250, 5751, 1843>>
  [] d = 4 ->
      <<3141, 8936, 9706, 5088, 2242, 7237, 8955, 1200, 4796, 5769, 4048,
      5079, 2437, 5912, 8517, 296, 3312, 2089, 1843>>
  [] d = 5 ->
      <<8081, 8435, 6095, 2561, 3890, 3238, 5172, 896, 5647, 4217, 5020,
      7787, 756, 9351, 3837, 3821, 4650, 8427, 1842>>
  [] d = 6 ->
      <<91, 3261, 4054, 4645, 1485, 4367, 2426, 7660, 1965, 4867, 399, 7054,
      8617, 5303, 4889, 6905, 3263, 4766, 1842>>
  [] d = 7 ->
      <<3201, 3533, 6866, 154, 9708, 7996, 122, 7405, 5438, 2549, 4755,
      6294, 2761, 6200, 1583, 5096, 9150, 1105, 1842>>

\* mul_fixed(demu_factor, balance) with a Decimal first operand:
\* int(factor * balance / 2^64), the 10^56 of the table divided out again
calculate_discounted_balance(balance, day_diff) ==
  IF day_diff = 0 THEN balance
  ELSE LET product == NMul(calculate_demurrage_factor(day_diff), balance.mag)
       IN  IF product = <<>> THEN Z0
           ELSE ZMk(balance.neg,
                    NDivPow(NShr(product, FactorDecimals \div 4), 65536, 4))

\* round(from_int(24 * ((GAMMA^n - 1) / (GAMMA - 1) + GAMMA^n))), the Decimal
\* expression evaluated for the day counts n a claim window can have
T(n) ==
  CASE n = -2 -> ZMk(TRUE, <<9732, 979, 9085, 9829, 4280, 4>>)
  [] n = -1 -> ZMk(FALSE, <<>>)
  [] n = 0 -> ZMk(FALSE, <<8784, 2923, 7690, 1857, 4272, 4>>)
  [] n = 1 -> ZMk(FALSE, <<6476, 2616, 8758, 5760, 8535, 8>>)
  [] n = 2 -> ZMk(FALSE, <<3126, 6686, 7941, 1726, 2790, 13>>)
  [] n = 3 -> ZMk(FALSE, <<8788, 5592, 9943, 9772, 7035, 17>>)
  [] n = 4 -> ZMk(FALSE, <<3193, 2717, 9432, 9916, 1272, 22>>)
  [] n = 5 -> ZMk(FALSE, <<5282, 4430, 1041, 2176, 5501, 26>>)
  [] n = 6 -> ZMk(FALSE, <<2606, 162, 9370, 6567, 9720, 30>>)
  [] n = 7 -> ZMk(FALSE, <<583, 2470, 8982, 3109, 3931, 35>>)
  [] n = 8 -> ZMk(FALSE, <<1628, 7108, 4407, 1819, 8133, 39>>)
  [] n = 9 -> ZMk(FALSE, <<4135, 3096, 141, 2714, 2326, 44>>)
  [] n = 10 -> ZMk(FALSE, <<1331, 2789, 643, 5811, 6510, 48>>)
  [] n = 11 -> ZMk(FALSE, <<9986, 1943, 339, 1128, 686, 53>>)
  [] n = 12 -> ZMk(FALSE, <<8993, 9790, 3619, 8682, 4852, 57>>)
  [] n = 13 -> ZMk(FALSE, <<7805, 9100, 4841, 8491, 9010, 61>>)
  [] n = 14 -> ZMk(FALSE, <<4739, 6254, 8326, 572, 3160, 66>>)
  [] n = 15 -> ZMk(FALSE, <<5143, 1311, 8361, 4943, 7300, 70>>)
  [] n = 16 -> ZMk(FALSE, <<9425, 8078, 9197, 1621, 1432, 75>>)

\* round(from_int(GAMMA^n))
R(n) ==
  CASE n = -2 -> ZMk(FALSE, <<1262, 9631, 8136, 4075, 1845>>)
  [] n = -1 -> ZMk(FALSE, <<1655, 2124, 5795, 409, 1845>>)
  [] n = 0 -> ZMk(FALSE, <<1616, 955, 737, 6744, 1844>>)
  [] n = 1 -> ZMk(FALSE, <<8654, 1653, 2961, 3079, 1844>>)
  [] n = 2 -> ZMk(FALSE, <<9027, 9752, 2465, 9415, 1843>>)
  [] n = 3 -> ZMk(FALSE, <<7736, 787, 9250, 5751, 1843>>)
  [] n = 4 -> ZMk(FALSE, <<8517, 296, 3312, 2089, 1843>>)
  [] n = 5 -> ZMk(FALSE, <<3837, 3821, 4650, 8427, 1842>>)
  [] n = 6 -> ZMk(FALSE, <<4888, 6905, 3263, 4766, 1842>>)
  [] n = 7 -> ZMk(FALSE, <<1582, 5096, 9150, 1105, 1842>>)
  [] n = 8 -> ZMk(FALSE, <<2544, 3943, 2309, 7446, 1841>>)
  [] n = 9 -> ZMk(FALSE, <<5104, 8999, 2738, 3787, 1841>>)
  [] n = 10 -> ZMk(FALSE, <<5300, 5820, 437, 129, 1841>>)
  [] n = 11 -> ZMk(FALSE, <<7861, 9964, 5403, 6471, 1840>>)
  [] n = 12 -> ZMk(FALSE, <<6209, 6993, 7636, 2814, 1840>>)
  [] n = 13 -> ZMk(FALSE, <<2450, 2471, 7134, 9158, 1839>>)
  [] n = 14 -> ZMk(FALSE, <<7372, 1964, 3895, 5503, 1839>>)
  [] n = 15 -> ZMk(FALSE, <<434, 1044, 7918, 1848, 1839>>)
  [] n = 16 -> ZMk(FALSE, <<9762, 5281, 9201, 8194, 1838>>)

(***************************************************************************)
(* circlesUBI/circles.py                                                   *)
(***************************************************************************)
\* a claim window of fifteen days
LongerClaimDuration == 15 * 24
MAX_CLAIM_DURATION == 14 * 24
DAYS == 24
HOURS == 1

SetMax(S) == CHOOSE k \in S : \A j \in S : j <= k
IntMax(a, b) == IF a >= b THEN a ELSE b

\* Circles.calculate_issuance.  raised is "none", "OverflowError" (add_fixed,
\* sub_fixed) or "NameError": the branch for issuance < 0 prints T(1), a name
\* the module does not define.
calculate_issuance(mint_times, current_time) ==
  LET last_mint_time   == SetMax(mint_times)
      start_mint       == IntMax(current_time - MAX_CLAIM_DURATION, last_mint_time)
      dA               == day_since_day0(start_mint)
      dB               == day_since_day0(current_time)
      n                == dB - dA
      complete_hours   == from_int(Z((start_mint - dA * DAYS) \div HOURS))
      incomplete_hours == from_int(Z(((dB + 1) * DAYS - current_time) \div HOURS))
      overcount        == add_fixed(mul_fixed(R(n), complete_hours), incomplete_hours)
      difference       == sub_fixed(T(n), overcount.value)
      issuance         == mul_fixed(difference.value, EXA)
      start            == dA * DAYS + (start_mint - dA * DAYS)
      end              == dB * DAYS + DAYS - ((dB + 1) * DAYS - current_time)
  IN  [raised |-> IF overcount.raised \/ difference.raised THEN "OverflowError"
                  ELSE IF ZLt(issuance, Z0) THEN "NameError"
                  ELSE "none",
       issuance |-> issuance,
       claimable_period_start |-> start,
       claimable_period_end |-> end]

\* Circles.mint_and_update_total_supply: <<last_updated_day, balance>>
mint_and_update_total_supply(balance, issuance, current_day, last_updated_day) ==
  LET day_diff == current_day - last_updated_day
      new_total_supply ==
        ZAdd(calculate_discounted_balance(balance, day_diff), issuance)
  IN  IF ZLe(new_total_supply, MAX_VALUE)
      THEN <<current_day, new_total_supply>>
      ELSE <<last_updated_day, balance>>

(***************************************************************************)
(* State                                                                   *)
(***************************************************************************)
VARIABLES
  avatars,        \* Hub.avatars: the HumanEnvironment (population_size, traits,
                  \* balance, supply, trusts, mints)
  next_human_id,  \* HubAgent.next_human_id
  current_time,   \* model.current_time
  G,              \* model.G, the routing graph: [nodes, edges]
  pre,            \* Hub.avatars as it was before the last call
  last,           \* the last call: operation, arguments, exception raised
  calls           \* number of calls made so far

vars == <<avatars, next_human_id, current_time, G, pre, last, calls>>

\* Python dicts are functions; None is 0 (human ids are positive)
None == 0
EmptyDict == <<>>
Put(f, k, v) == [x \in (DOMAIN f) \cup {k} |-> IF x = k THEN v ELSE f[x]]
Single(k, v) == [x \in {k} |-> v]
Latest(f) == f[SetMax(DOMAIN f)]

(***************************************************************************)
(* circlesUBI/hub.py: HumanEnvironment                                     *)
(* The operators take the environment E and return the environment after   *)
(* the call, with the value returned and the exception raised ("none" when  *)
(* the call returns).                                                       *)
(***************************************************************************)
HumanEnvironment ==
  [population_size |-> 0, traits |-> EmptyDict, balance |-> EmptyDict,
   supply |-> EmptyDict, trusts |-> EmptyDict, mints |-> EmptyDict]

\* the random sociability, influence and evilness are read by the behaviour
\* driver only; the ledger keeps invited_by and created_at
default_traits(created_at, invited_by) ==
  [invited_by |-> invited_by, created_at |-> created_at]

add_human(E, human_id, traits, balance, supply, mints) ==
  [E EXCEPT !.traits = Put(@, human_id, traits),
            !.balance = Put(@, human_id, balance),
            !.supply = Put(@, human_id, supply),
            !.mints = Put(@, human_id, mints),
            !.population_size = @ + 1]

\* add_trust without the test for an edge that is already there
add_trust_overwriting(E, human_id, trusting_on_human_id, trust_data) ==
  LET trusts1 == IF human_id \in DOMAIN E.trusts THEN E.trusts
                 ELSE Put(E.trusts, human_id, EmptyDict)
  IN  [E EXCEPT !.trusts =
         Put(trusts1, human_id,
             Put(trusts1[human_id], trusting_on_human_id, trust_data))]

add_trust(E, human_id, trusting_on_human_id, trust_data) ==
  LET trusts1 == IF human_id \in DOMAIN E.trusts THEN E.trusts
                 ELSE Put(E.trusts, human_id, EmptyDict)
  IN  IF trusting_on_human_id \in DOMAIN trusts1[human_id]
      THEN [E EXCEPT !.trusts = trusts1]
      ELSE [E EXCEPT !.trusts =
              Put(trusts1, human_id,
                  Put(trusts1[human_id], trusting_on_human_id, trust_data))]

update_balance(E, current_date, human_id, change) ==
  IF human_id \in DOMAIN E.balance
  THEN LET own == E.balance[human_id][human_id]
           new_balance == ZAdd(Latest(own), change)
       IN  [env |-> IF ZGt(new_balance, Z0)
                    THEN [E EXCEPT !.balance[human_id][human_id] =
                                      Put(own, current_date, new_balance)]
                    ELSE E,
            ret |-> new_balance,
            raised |-> "none"]
  ELSE [env |-> E, ret |-> Z0, raised |-> "ValueError: Human ID not found in balances"]

(***************************************************************************)
(* circlesUBI/hub.py: Hub                                                  *)
(***************************************************************************)
\* init_native_balance is an unbounded integer
register_human(E, created_at, human_id, invited_by, init_native_balance) ==
  LET traits == default_traits(created_at, invited_by)
      initial_balance ==
        Single(human_id, Single(created_at, mul_fixed(init_native_balance, EXA)))
      initial_supply == Single(created_at, mul_fixed(init_native_balance, EXA))
      mints == Single(created_at,
                      [day |-> day_since_day0(created_at),
                       issuance |-> ZMul(init_native_balance, EXA)])
  IN  [env |-> add_human(E, human_id, traits, initial_balance, initial_supply, mints),
       ret |-> Z0,
       raised |-> "none"]

establish_trusts(E, time, human_id, trusting_on_human_id, value, trust_duration) ==
  LET trust_data == [created_at |-> time,
                     amount |-> mul_fixed(Z(value), EXA),
                     duration |-> trust_duration]
  IN  [env |-> add_trust(E, human_id, trusting_on_human_id, trust_data),
       ret |-> Z0,
       raised |-> "none"]

\* the default trust_duration=1e9 of establish_trusts and invite_human
DefaultDuration == 10 ^ 9

invite_human(E, time, new_human_id, invited_by, init_native_balance) ==
  LET paid == update_balance(E, time, invited_by, ZNeg(mul_fixed(Z(10), EXA)))
  IN  IF paid.raised # "none" THEN paid
      ELSE IF ZGe(paid.ret, Z0)
      THEN LET registered ==
                 register_human(paid.env, time, new_human_id, invited_by,
                                Z(init_native_balance))
           IN  establish_trusts(registered.env, time, invited_by, new_human_id,
                                100, DefaultDuration)
      ELSE [env |-> paid.env, ret |-> Z0,
            raised |-> "ValueError: Insufficient balance for invitation"]

mint(E, human_id, time) ==
  IF human_id \notin DOMAIN E.mints
  THEN [env |-> E, ret |-> Z0, raised |-> "KeyError"]
  ELSE
    LET supply == E.supply[human_id]
        calc   == calculate_issuance(DOMAIN E.mints[human_id], time)
    IN  IF calc.raised # "none"
        THEN [env |-> E, ret |-> Z0, raised |-> calc.raised]
        ELSE IF calc.issuance = Z0
        THEN [env |-> E, ret |-> Z0, raised |-> "none"]
        ELSE
          LET current_day      == day_since_day0(time)
              last_updated_day == SetMax(DOMAIN supply)
              total_supply     == supply[last_updated_day]
              updated == mint_and_update_total_supply(
                           total_supply, calc.issuance, current_day, last_updated_day)
              E1 == [E EXCEPT
                       !.mints[human_id] =
                          Put(@, time, [day |-> updated[1], issuance |-> calc.issuance]),
                       !.supply[human_id] = Put(@, time, updated[2])]
              credited == update_balance(E1, time, human_id, calc.issuance)
          IN  [env |-> credited.env, ret |-> calc.issuance, raised |-> credited.raised]

burn(E, human_id, amount, time) ==
  IF human_id \notin DOMAIN E.balance
  THEN [env |-> E, ret |-> Z0, raised |-> "KeyError"]
  ELSE
    LET current_balance == Latest(E.balance[human_id][human_id])
    IN  IF ZLt(current_balance, amount)
        THEN [env |-> E, ret |-> Z0,
              raised |-> "ValueError: Insufficient balance for burning"]
        ELSE
          LET debited == update_balance(E, time, human_id, ZNeg(amount))
              current_supply == Latest(debited.env.supply[human_id])
              new_supply == ZSub(current_supply, amount)
          IN  [env |-> [debited.env EXCEPT !.supply[human_id] = Put(@, time, new_supply)],
               ret |-> debited.ret,
               raised |-> "none"]

\* Hub.update_supply: the discounting is asked of self.circles, and Circles has
\* no calculate_discounted_balance (it is a method of Demurrage): once a day
\* has passed the call raises AttributeError before any supply is written.
update_supply(E, human_id, time) ==
  LET last_supply_time == SetMax(DOMAIN E.supply[human_id])
      last_supply == E.supply[human_id][last_supply_time]
      days_passed == day_since_day0(time) - day_since_day0(last_supply_time)
  IN  IF days_passed > 0
      THEN [env |-> E, ret |-> Z0, raised |-> "AttributeError"]
      ELSE [env |-> E, ret |-> last_supply, raised |-> "none"]

\* the three trust checks of Hub.transfer, each after a variant with the slip
\* the properties below must notice
sender_trusts_receiver(E, receiver_id, sender_id) ==
  sender_id \in DOMAIN E.trusts /\ receiver_id \in DOMAIN E.trusts[sender_id]

receiver_trusts_sender(E, receiver_id, sender_id) ==
  receiver_id \in DOMAIN E.trusts /\ sender_id \in DOMAIN E.trusts[receiver_id]

reaches_trust_amount(trust_data, amount) == ZLe(trust_data.amount, amount)

exceeds_trust_amount(trust_data, amount) == ZLt(trust_data.amount, amount)

trust_expires_at_deadline(trust_data, time) ==
  time >= trust_data.created_at + trust_data.duration

trust_has_expired(trust_data, time) ==
  time > trust_data.created_at + trust_data.duration

transfer(E, sender_id, receiver_id, amount, time) ==
  IF sender_id = receiver_id
  THEN [env |-> E, ret |-> Z0, raised |-> "ValueError: Sender and receiber are same"]
  ELSE IF sender_id \notin DOMAIN E.balance
  THEN [env |-> E, ret |-> Z0, raised |-> "KeyError"]
  ELSE IF ZLt(Latest(E.balance[sender_id][sender_id]), amount)
  THEN [env |-> E, ret |-> Z0, raised |-> "ValueError: Insufficient balance for transfer"]
  ELSE IF ~receiver_trusts_sender(E, receiver_id, sender_id)
  THEN [env |-> E, ret |-> Z0, raised |-> "ValueError: Receiver does not trust sender"]
  ELSE IF receiver_id \notin DOMAIN E.trusts
          \/ sender_id \notin DOMAIN E.trusts[receiver_id]
  THEN [env |-> E, ret |-> Z0, raised |-> "KeyError"]
  ELSE
    LET trust_data == E.trusts[receiver_id][sender_id]
    IN  IF exceeds_trust_amount(trust_data, amount)
        THEN [env |-> E, ret |-> Z0,
              raised |-> "ValueError: Transfer amount exceeds trust amount"]
        ELSE IF trust_has_expired(trust_data, time)
        THEN [env |-> E, ret |-> Z0, raised |-> "ValueError: Trust has expired"]
        ELSE
          LET debited == update_balance(E, time, sender_id, ZNeg(amount))
              credited == update_balance(debited.env, time, receiver_id, amount)
          IN  IF credited.raised # "none" THEN credited
              ELSE
                LET s1 == update_supply(credited.env, sender_id, time)
                    s2 == update_supply(s1.env, receiver_id, time)
                IN  IF s1.raised # "none" THEN s1
                    ELSE IF s2.raised # "none" THEN s2
                    ELSE [env |-> s2.env, ret |-> debited.ret, raised |-> "none"]

(***************************************************************************)
(* ABM_simulation/agents.py: HubAgent                                      *)
(* The operators take the state S = [env, next, G] (the HumanEnvironment,  *)
(* next_human_id and model.G) and return the state after the call; raised  *)
(* is the exception the method catches and logs.                           *)
(***************************************************************************)
add_node(g, n) ==
  [g EXCEPT !.nodes = @ \cup {n},
            !.adj = IF n \in DOMAIN @ THEN @ ELSE Put(@, n, <<>>)]

InSeq(x, q) == \E i \in 1..Len(q) : q[i] = x

\* networkx DiGraph.add_edge: both ends become nodes, a new successor is
\* appended to the adjacency of u, an existing edge has its weight replaced
add_edge(g, u, v, weight) ==
  LET g2 == add_node(add_node(g, u), v)
  IN  [g2 EXCEPT !.adj[u] = IF InSeq(v, @) THEN @ ELSE Append(@, v),
                 !.weight = Put(@, <<u, v>>, weight)]

EmptyGraph == [nodes |-> {}, adj |-> EmptyDict, weight |-> EmptyDict]

\* the counter read without being advanced
same_human_id(S) == S.next

get_next_human_id(S) == S.next + 1

register_new_human(S, time) ==
  LET new_human_id == get_next_human_id(S)
      r == register_human(S.env, time, new_human_id, None, Z(50))
  IN  [env |-> r.env, next |-> new_human_id, G |-> add_node(S.G, new_human_id),
       raised |-> r.raised]

agent_invite_human(S, time, inviter_id, init_native_balance) ==
  LET new_human_id == get_next_human_id(S)
      r == invite_human(S.env, time, new_human_id, inviter_id, init_native_balance)
  IN  IF r.raised # "none"
      THEN [env |-> r.env, next |-> new_human_id, G |-> S.G, raised |-> r.raised]
      ELSE [env |-> r.env, next |-> new_human_id,
            G |-> add_edge(add_node(S.G, new_human_id), inviter_id, new_human_id, 100),
            raised |-> "none"]

agent_mint(S, time, human_id) ==
  LET r == mint(S.env, human_id, time)
  IN  [env |-> r.env, next |-> S.next, G |-> S.G, raised |-> r.raised]

agent_establish_trusts(S, time, human_id, trusting_on_human_id, value, trust_duration) ==
  LET r == establish_trusts(S.env, time, human_id, trusting_on_human_id, value,
                            trust_duration)
  IN  [env |-> r.env, next |-> S.next,
       G |-> add_edge(S.G, human_id, trusting_on_human_id, value),
       raised |-> r.raised]

\* networkx all_simple_paths(G, source, target, cutoff): depth-first over the
\* successors in insertion order; a path has at most cutoff edges
RECURSIVE PathsVia(_, _, _, _, _)
PathsVia(g, visited, target, cutoff, i) ==
  LET children == g.adj[visited[Len(visited)]]
  IN  IF i > Len(children) THEN <<>>
      ELSE LET child == children[i]
               here == IF InSeq(child, visited) THEN <<>>
                       ELSE IF child = target THEN <<Append(visited, child)>>
                       ELSE IF Len(visited) < cutoff
                       THEN PathsVia(g, Append(visited, child), target, cutoff, 1)
                       ELSE <<>>
           IN  here \o PathsVia(g, visited, target, cutoff, i + 1)

all_simple_paths(g, source, target, cutoff) ==
  IF source \notin g.nodes \/ target \notin g.nodes
  THEN [raised |-> "NodeNotFound", paths |-> <<>>]
  ELSE [raised |-> "none",
        paths |-> IF source = target THEN <<>>
                  ELSE PathsVia(g, <<source>>, target, cutoff, 1)]

\* source and target are swapped: the paths run from the receiver to the sender
find_transfer_paths(g, source, target) == all_simple_paths(g, target, source, 5)

get_currency_balance(E, human_id, currency_id) ==
  IF human_id \in DOMAIN E.balance /\ currency_id \in DOMAIN E.balance[human_id]
  THEN Latest(E.balance[human_id][currency_id])
  ELSE Z0

get_trust_amount(E, truster, trustee) ==
  IF truster \in DOMAIN E.trusts /\ trustee \in DOMAIN E.trusts[truster]
  THEN E.trusts[truster][trustee].amount
  ELSE Z0

RECURSIVE MaxAlong(_, _, _, _)
MaxAlong(E, path, max_amount, i) ==
  IF i > Len(path) - 1 THEN max_amount
  ELSE LET trustee == path[i]
           truster == path[i + 1]
           trust_amount == get_trust_amount(E, truster, trustee)
           balance == get_currency_balance(E, trustee, trustee)
       IN  MaxAlong(E, path, ZMin(ZMin(max_amount, trust_amount), balance), i + 1)

get_max_transfer_amount(E, path, amount) == MaxAlong(E, path, amount, 1)

\* the loop without the comparison of lengths: the first path that carries
\* the amount is kept
RECURSIVE FirstCarrying(_, _, _, _, _)
FirstCarrying(E, paths, amount, i, best) ==
  IF i > Len(paths) THEN best
  ELSE LET path == paths[i]
           path_max == get_max_transfer_amount(E, path, amount)
           next == IF ZGe(path_max, amount) /\ ZLt(best.max_transferable, amount)
                   THEN [optimal_path |-> path, max_transferable |-> path_max]
                   ELSE IF ZGt(path_max, best.max_transferable)
                   THEN [optimal_path |-> path, max_transferable |-> path_max]
                   ELSE best
       IN  FirstCarrying(E, paths, amount, i + 1, next)

\* the loop of find_optimal_transfer_path; optimal_path None is <<>>
RECURSIVE OptimalOver(_, _, _, _, _)
OptimalOver(E, paths, amount, i, best) ==
  IF i > Len(paths) THEN best
  ELSE LET path == paths[i]
           path_max == get_max_transfer_amount(E, path, amount)
           next == IF ZGe(path_max, amount)
                      /\ (best.optimal_path = <<>> \/ Len(path) < Len(best.optimal_path))
                   THEN [optimal_path |-> path, max_transferable |-> path_max]
                   ELSE IF ZGt(path_max, best.max_transferable)
                   THEN [optimal_path |-> path, max_transferable |-> path_max]
                   ELSE best
       IN  OptimalOver(E, paths, amount, i + 1, next)

find_optimal_transfer_path(E, g, source, target, amount) ==
  LET found == find_transfer_paths(g, source, target)
  IN  IF found.raised # "none"
      THEN [raised |-> found.raised, optimal_path |-> <<>>, max_transferable |-> Z0]
      ELSE [raised |-> "none"] @@
           OptimalOver(E, found.paths, amount, 1,
                       [optimal_path |-> <<>>, max_transferable |-> Z0])

(***************************************************************************)
(* ABM_simulation/pathfinder.py: PathFinder(graph, hub_agent)              *)
(***************************************************************************)
PathFinder_find_transfer_paths(g, source, target) ==
  all_simple_paths(g, target, source, 5)

\* get_max_transfer_amount leaves its loop once max_amount < amount
RECURSIVE PathFinder_MaxAlong(_, _, _, _, _)
PathFinder_MaxAlong(E, path, amount, max_amount, i) ==
  IF i > Len(path) - 1 THEN max_amount
  ELSE LET trustee == path[i]
           truster == path[i + 1]
           trust_amount == get_trust_amount(E, truster, trustee)
           balance == get_currency_balance(E, trustee, trustee)
           lower == ZMin(ZMin(max_amount, trust_amount), balance)
       IN  IF ZLt(lower, amount) THEN lower
           ELSE PathFinder_MaxAlong(E, path, amount, lower, i + 1)

PathFinder_get_max_transfer_amount(E, path, amount) ==
  PathFinder_MaxAlong(E, path, amount, amount, 1)

RECURSIVE PathFinder_OptimalOver(_, _, _, _, _)
PathFinder_OptimalOver(E, paths, amount, i, best) ==
  IF i > Len(paths) THEN best
  ELSE LET path == paths[i]
           path_max == PathFinder_get_max_transfer_amount(E, path, amount)
           next == IF ZGe(path_max, amount)
                      /\ (best.optimal_path = <<>> \/ Len(path) < Len(best.optimal_path))
                   THEN [optimal_path |-> path, max_transferable |-> path_max]
                   ELSE IF ZGt(path_max, best.max_transferable)
                   THEN [optimal_path |-> path, max_transferable |-> path_max]
                   ELSE best
       IN  PathFinder_OptimalOver(E, paths, amount, i + 1, next)

PathFinder_find_optimal_transfer_path(E, g, source, target, amount) ==
  LET found == PathFinder_find_transfer_paths(g, source, target)
  IN  IF found.raised # "none"
      THEN [raised |-> found.raised, optimal_path |-> <<>>, max_transferable |-> Z0]
      ELSE [raised |-> "none"] @@
           PathFinder_OptimalOver(E, found.paths, amount, 1,
                                  [optimal_path |-> <<>>, max_transferable |-> Z0])

(***************************************************************************)
(* ABM_simulation/agents.py: HubAgent.transfer                             *)
(***************************************************************************)
\* the balance entry HubAgent.transfer writes for the sending node of a hop
debit_sending_node(E, from_id, amount, time) ==
  [E EXCEPT !.balance[from_id][from_id] =
     Put(@, time, ZSub(get_currency_balance(E, from_id, from_id), amount))]

\* the entry for the receiving node written together with a trust record of
\* the receiver whose amount is lowered by the amount received
credit_and_consume_trust(E, from_id, to_id, amount, time) ==
  [(IF from_id \in DOMAIN E.balance[to_id]
    THEN [E EXCEPT !.balance[to_id][from_id] =
            Put(@, time, ZAdd(get_currency_balance(E, to_id, from_id), amount))]
    ELSE [E EXCEPT !.balance[to_id] = Put(@, from_id, Single(time, amount))])
   EXCEPT !.trusts[to_id][from_id].amount = ZSub(@, amount)]

\* the balance entry HubAgent.transfer writes for the receiving node of a hop
credit_receiving_node(E, from_id, to_id, amount, time) ==
  IF from_id \in DOMAIN E.balance[to_id]
  THEN [E EXCEPT !.balance[to_id][from_id] =
          Put(@, time, ZAdd(get_currency_balance(E, to_id, from_id), amount))]
  ELSE [E EXCEPT !.balance[to_id] = Put(@, from_id, Single(time, amount))]

\* the hops made with every Hub.transfer in a try of its own: a failed hop is
\* reported and the hops after it are made all the same
RECURSIVE TransferAlongPastFailures(_, _, _, _, _)
TransferAlongPastFailures(E, path, amount, time, i) ==
  IF i > Len(path) - 1 THEN [env |-> E, raised |-> "none"]
  ELSE LET r == transfer(E, path[i], path[i + 1], amount, time)
           rest == TransferAlongPastFailures(
                     IF r.raised # "none" THEN r.env
                     ELSE credit_receiving_node(
                            debit_sending_node(r.env, path[i], amount, time),
                            path[i], path[i + 1], amount, time),
                     path, amount, time, i + 1)
       IN  [env |-> rest.env,
            raised |-> IF r.raised # "none" THEN r.raised ELSE rest.raised]

\* the hops of HubAgent.transfer from position i of the path: Hub.transfer,
\* then the two balance entries the agent writes itself
RECURSIVE TransferAlong(_, _, _, _, _)
TransferAlong(E, path, amount, time, i) ==
  IF i > Len(path) - 1 THEN [env |-> E, raised |-> "none"]
  ELSE LET r == transfer(E, path[i], path[i + 1], amount, time)
       IN  IF r.raised # "none" THEN [env |-> r.env, raised |-> r.raised]
           ELSE TransferAlong(
                  credit_receiving_node(
                    debit_sending_node(r.env, path[i], amount, time),
                    path[i], path[i + 1], amount, time),
                  path, amount, time, i + 1)

agent_transfer(S, time, sender_id, receiver_id, amount) ==
  LET found == find_optimal_transfer_path(S.env, S.G, sender_id, receiver_id, amount)
  IN  IF found.raised # "none"
      THEN [env |-> S.env, next |-> S.next, G |-> S.G, raised |-> found.raised]
      ELSE IF found.optimal_path # <<>> /\ ZGe(found.max_transferable, amount)
      THEN LET r == TransferAlong(S.env, found.optimal_path, amount, time, 1)
           IN  [env |-> r.env, next |-> S.next, G |-> S.G, raised |-> r.raised]
      ELSE [env |-> S.env, next |-> S.next, G |-> S.G, raised |-> "none"]

(***************************************************************************)
(* Inputs of the calls                                                     *)
(***************************************************************************)
MaxHumans == 3
MaxCalls == 2
MaxAgentCalls == 3
MaxTime == 24
AgentAmounts == {1, 2}
\* CirclesNetwork(initial_agents): humans registered by the constructor
InitialAgents == 2
Humans == 1..MaxHumans
\* logical times: two instants of day 0 and the first instant of day 1
Times == {0, 1, 24}
\* init_native_balance: mul_fixed(50, EXA) = 2, mul_fixed(56, EXA) = 3
InitBalances == {50, 56}
\* trust value and duration: mul_fixed(100, EXA) = 5, mul_fixed(19, EXA) = 1
TrustInputs == {<<100, DefaultDuration>>, <<19, 0>>}
Amounts == {1, 2, 3}

Call(op, r, a, b, amount, time) ==
  [op |-> op, raised |-> r.raised, a |-> a, b |-> b, amount |-> amount, time |-> time]

\* CirclesNetwork.__init__: current_time = 0, an empty graph, a HubAgent with an
\* empty HumanEnvironment, then initial_agents calls of register_new_human
RECURSIVE Constructed(_)
Constructed(n) ==
  IF n = 0 THEN [env |-> HumanEnvironment, next |-> 0, G |-> EmptyGraph, raised |-> "none"]
  ELSE register_new_human(Constructed(n - 1), 0)

Init ==
  /\ avatars = Constructed(InitialAgents).env
  /\ next_human_id = Constructed(InitialAgents).next
  /\ current_time = 0
  /\ G = Constructed(InitialAgents).G
  /\ pre = Constructed(InitialAgents).env
  /\ last = [op |-> "init", raised |-> "none", a |-> None, b |-> None,
             amount |-> 0, time |-> 0]
  /\ calls = 0

(***************************************************************************)
(* Calls of the Hub with an explicit logical time                          *)
(***************************************************************************)
HubCall(op, r, a, b, amount, time) ==
  /\ calls < MaxCalls
  /\ avatars' = r.env
  /\ pre' = avatars
  /\ last' = Call(op, r, a, b, amount, time)
  /\ calls' = calls + 1
  /\ UNCHANGED <<next_human_id, current_time, G>>

HubRegister(time, human_id, invited_by, init) ==
  HubCall("register_human", register_human(avatars, time, human_id, invited_by, Z(init)),
          human_id, invited_by, init, time)

HubEstablishTrusts(time, human_id, trusting_on_human_id, value, duration) ==
  HubCall("establish_trusts",
          establish_trusts(avatars, time, human_id, trusting_on_human_id, value, duration),
          human_id, trusting_on_human_id, value, time)

HubInvite(time, new_human_id, invited_by, init) ==
  HubCall("invite_human", invite_human(avatars, time, new_human_id, invited_by, init),
          new_human_id, invited_by, init, time)

HubMint(human_id, time) ==
  HubCall("mint", mint(avatars, human_id, time), human_id, None, 0, time)

HubBurn(human_id, amount, time) ==
  HubCall("burn", burn(avatars, human_id, Z(amount), time), human_id, None, amount, time)

HubTransfer(sender_id, receiver_id, amount, time) ==
  HubCall("transfer", transfer(avatars, sender_id, receiver_id, Z(amount), time),
          sender_id, receiver_id, amount, time)

Next ==
  \/ \E t \in Times, h \in Humans, i \in InitBalances : HubRegister(t, h, None, i)
  \/ \E t \in Times, h \in Humans, v \in TrustInputs :
        \E o \in Humans \ {h} : HubEstablishTrusts(t, h, o, v[1], v[2])
  \/ \E t \in Times, h \in Humans, o \in Humans : HubInvite(t, h, o, 50)
  \/ \E t \in Times, h \in Humans : HubMint(h, t)
  \/ \E t \in Times, h \in Humans, a \in Amounts : HubBurn(h, a, t)
  \/ \E t \in Times, h \in Humans, o \in Humans, a \in Amounts : HubTransfer(h, o, a, t)

Spec == Init /\ [][Next]_vars

(***************************************************************************)
(* Calls of the HubAgent at model.current_time, and the steps of the model *)
(***************************************************************************)
AgentState == [env |-> avatars, next |-> next_human_id, G |-> G]

AgentCall(op, r, a, b, amount) ==
  /\ calls < MaxAgentCalls
  /\ avatars' = r.env
  /\ next_human_id' = r.next
  /\ G' = r.G
  /\ pre' = avatars
  /\ last' = Call(op, r, a, b, amount, current_time)
  /\ calls' = calls + 1
  /\ UNCHANGED current_time

AgentRegister ==
  /\ next_human_id < MaxHumans
  /\ AgentCall("register_new_human", register_new_human(AgentState, current_time),
               next_human_id + 1, None, 50)

AgentInvite(inviter_id, init) ==
  /\ next_human_id < MaxHumans
  /\ AgentCall("invite_human", agent_invite_human(AgentState, current_time, inviter_id, init),
               next_human_id + 1, inviter_id, init)

AgentMint(human_id) ==
  AgentCall("mint", agent_mint(AgentState, current_time, human_id), human_id, None, 0)

AgentEstablishTrusts(human_id, trusting_on_human_id, value, duration) ==
  AgentCall("establish_trusts",
            agent_establish_trusts(AgentState, current_time, human_id,
                                   trusting_on_human_id, value, duration),
            human_id, trusting_on_human_id, value)

AgentTransfer(sender_id, receiver_id, amount) ==
  AgentCall("transfer",
            agent_transfer(AgentState, current_time, sender_id, receiver_id, Z(amount)),
            sender_id, receiver_id, amount)

\* CirclesNetwork.step advances current_time by one; StepDay is a run of DAYS
\* steps in which no human is activated to act
StepDay ==
  /\ current_time + DAYS <= MaxTime
  /\ current_time' = current_time + DAYS
  /\ pre' = avatars
  /\ last' = [op |-> "step", raised |-> "none", a |-> None, b |-> None,
              amount |-> 0, time |-> current_time + DAYS]
  /\ UNCHANGED <<avatars, next_human_id, G, calls>>

NextAgent ==
  \/ AgentRegister
  \/ \E h \in Humans, i \in InitBalances : AgentInvite(h, i)
  \/ \E h \in Humans : AgentMint(h)
  \/ \E h \in Humans, v \in TrustInputs :
        \E o \in Humans \ {h} : AgentEstablishTrusts(h, o, v[1], v[2])
  \/ \E h \in Humans, a \in AgentAmounts :
        \E o \in Humans \ {h} : AgentTransfer(h, o, a)
  \/ StepDay

SpecAgent == Init /\ [][NextAgent]_vars

(***************************************************************************)
(* The calls of HubAgent that hand out ids, up to the id MaxIds: inviters  *)
(* that are registered, and inviters that are not (the invite fails)       *)
(***************************************************************************)
MaxIds == 5

IdsRegister ==
  /\ next_human_id < MaxIds
  /\ AgentCall("register_new_human", register_new_human(AgentState, current_time),
               next_human_id + 1, None, 50)

IdsInvite(inviter_id, init) ==
  /\ next_human_id < MaxIds
  /\ AgentCall("invite_human", agent_invite_human(AgentState, current_time, inviter_id, init),
               next_human_id + 1, inviter_id, init)

NextIds ==
  \/ IdsRegister
  \/ \E h \in 1..MaxIds, i \in InitBalances : IdsInvite(h, i)

SpecIds == Init /\ [][NextIds]_vars

(***************************************************************************)
(* Calls of the Hub on accounts whose supply is at the ceiling MAX_VALUE   *)
(***************************************************************************)
\* an init_native_balance b with mul_fixed(b, EXA) = MAX_VALUE:
\* 115792089237316195423570985008687907853269984665640564039440
CeilingBalance ==
  ZMk(FALSE, <<9440, 6403, 6405, 4665, 6998, 8532, 7907, 868, 9850, 3570, 9542,
               3161, 9237, 9208, 1157>>)

\* register_human with the init_native_balance that puts the supply at
\* MAX_VALUE; last.amount is 0, the amount being no machine integer
HubRegisterAtCeiling(time, human_id) ==
  HubCall("register_human",
          register_human(avatars, time, human_id, None, CeilingBalance),
          human_id, None, 0, time)

NextCeiling ==
  \/ \E t \in Times, h \in Humans : HubRegisterAtCeiling(t, h)
  \/ \E t \in Times, h \in Humans : HubMint(h, t)
  \/ \E t \in Times, h \in Humans, a \in Amounts : HubBurn(h, a, t)

SpecCeiling == Init /\ [][NextCeiling]_vars

(***************************************************************************)
(* Route finding.  find_optimal_transfer_path reads the ledger and the     *)
(* graph and writes nothing: it is applied to the networks that            *)
(* establish_trusts calls build on RouteHumans registered humans, either   *)
(* at time 0 with the balances of the registration or at time 1 after a    *)
(* mint of everyone.                                                       *)
(***************************************************************************)
RouteHumans == 3
MaxRouteCalls == 1
\* trust values: mul_fixed(1845, EXA) = 100, mul_fixed(923, EXA) = 50
RouteTrustValues == {1845, 923}
RouteAmounts == {40, 80, 120}
RoutePairs == {p \in (1..RouteHumans) \X (1..RouteHumans) : p[1] # p[2]}

\* the ordered pairs in lexicographic order, ascending or descending
PairAt(k, descending) ==
  LET j == IF descending THEN RouteHumans * RouteHumans - 1 - k ELSE k
  IN  <<(j \div RouteHumans) + 1, (j % RouteHumans) + 1>>

\* establish_trusts(human_id, trusting_on_human_id, value) for the pairs that
\* choice gives a value, in the order of PairAt
RECURSIVE Established(_, _, _, _, _)
Established(S, time, choice, descending, k) ==
  IF k = RouteHumans * RouteHumans THEN S
  ELSE Established(
         IF PairAt(k, descending) \in RoutePairs /\ choice[PairAt(k, descending)] # None
         THEN agent_establish_trusts(S, time, PairAt(k, descending)[1],
                                     PairAt(k, descending)[2],
                                     choice[PairAt(k, descending)], DefaultDuration)
         ELSE S,
         time, choice, descending, k + 1)

RECURSIVE MintedUpTo(_, _, _)
MintedUpTo(S, time, h) ==
  IF h = 0 THEN S ELSE agent_mint(MintedUpTo(S, time, h - 1), time, h)

\* the humans of the constructor, and the same after everyone's mint at time 1
RoutePopulation == Constructed(RouteHumans)
MintedPopulation == MintedUpTo(RoutePopulation, 1, RouteHumans)

RouteNetwork(choice, descending, time) ==
  Established(IF time = 0 THEN RoutePopulation ELSE MintedPopulation,
              time, choice, descending, 0)

InitFrom(S, time) ==
  /\ avatars = S.env
  /\ next_human_id = S.next
  /\ current_time = time
  /\ G = S.G
  /\ pre = S.env
  /\ last = [op |-> "init", raised |-> "none", a |-> None, b |-> None,
             amount |-> 0, time |-> time]
  /\ calls = 0

InitRoute ==
  \E choice \in [RoutePairs -> RouteTrustValues \cup {None}],
     descending \in BOOLEAN, time \in {0, 1} :
    InitFrom(RouteNetwork(choice, descending, time), time)

\* a call of find_optimal_transfer_path; last keeps what it returned
FindCall(finder, r, source, target, amount) ==
  /\ calls < MaxRouteCalls
  /\ calls' = calls + 1
  /\ pre' = avatars
  /\ last' = [op |-> "find_optimal_transfer_path", finder |-> finder,
              raised |-> r.raised, a |-> source, b |-> target, amount |-> amount,
              time |-> current_time,
              optimal_path |-> r.optimal_path,
              max_transferable |-> r.max_transferable]
  /\ UNCHANGED <<avatars, next_human_id, current_time, G>>

AgentFindOptimalTransferPath(source, target, amount) ==
  FindCall("HubAgent",
           find_optimal_transfer_path(avatars, G, source, target, Z(amount)),
           source, target, amount)

PathFinderFindOptimalTransferPath(source, target, amount) ==
  FindCall("PathFinder",
           PathFinder_find_optimal_transfer_path(avatars, G, source, target, Z(amount)),
           source, target, amount)

NextRoute ==
  \/ \E p \in RoutePairs, a \in RouteAmounts :
        AgentFindOptimalTransferPath(p[1], p[2], a)
  \/ \E p \in RoutePairs, a \in RouteAmounts :
        PathFinderFindOptimalTransferPath(p[1], p[2], a)

SpecRoute == InitRoute /\ [][NextRoute]_vars

(***************************************************************************)
(* HubAgent.transfer on the same networks, where routes of one and of two  *)
(* hops exist                                                              *)
(***************************************************************************)
RouteTransfer(sender_id, receiver_id, amount) ==
  /\ calls < MaxRouteCalls
  /\ AgentCall("transfer",
               agent_transfer(AgentState, current_time, sender_id, receiver_id, Z(amount)),
               sender_id, receiver_id, amount)

NextRouteTransfer ==
  \E p \in RoutePairs, a \in RouteAmounts : RouteTransfer(p[1], p[2], a)

SpecRouteTransfer == InitRoute /\ [][NextRouteTransfer]_vars

(***************************************************************************)
(* get_max_transfer_amount of HubAgent and of PathFinder on the paths of   *)
(* one and of two hops over the same networks                              *)
(***************************************************************************)
RoutePaths ==
  {<<p[1], p[2]>> : p \in RoutePairs}
    \cup {<<q[1], q[2], q[3]>> :
            q \in {t \in (1..RouteHumans) \X (1..RouteHumans) \X (1..RouteHumans) :
                     t[1] # t[2] /\ t[2] # t[3] /\ t[1] # t[3]}}

\* a call of get_max_transfer_amount; last keeps what it returned
MaxCall(finder, max_amount, path, amount) ==
  /\ calls < MaxRouteCalls
  /\ calls' = calls + 1
  /\ pre' = avatars
  /\ last' = [op |-> "get_max_transfer_amount", finder |-> finder, raised |-> "none",
              path |-> path, amount |-> amount, time |-> current_time,
              max_amount |-> max_amount]
  /\ UNCHANGED <<avatars, next_human_id, current_time, G>>

AgentGetMaxTransferAmount(path, amount) ==
  MaxCall("HubAgent", get_max_transfer_amount(avatars, path, Z(amount)), path, amount)

PathFinderGetMaxTransferAmount(path, amount) ==
  MaxCall("PathFinder", PathFinder_get_max_transfer_amount(avatars, path, Z(amount)),
          path, amount)

NextPathMax ==
  \/ \E path \in RoutePaths, a \in RouteAmounts : AgentGetMaxTransferAmount(path, a)
  \/ \E path \in RoutePaths, a \in RouteAmounts : PathFinderGetMaxTransferAmount(path, a)

SpecPathMax == InitRoute /\ [][NextPathMax]_vars

(***************************************************************************)
(* HubAgent.transfer when hops can fail: everyone has minted at time 1,    *)
(* the trusts are established at time 1 with the default duration or with  *)
(* duration 0, and the transfer is made at time 1, an hour later (the      *)
(* trusts of duration 0 have expired) or a day later (the supply entries   *)
(* are of the day before).                                                 *)
(***************************************************************************)
\* value and duration of a trust; <<>> in a choice of trusts: no trust
HopTrusts == {<<1845, DefaultDuration>>, <<1845, 0>>}
HopTimes == {1, 2, 25}
HopAmounts == {40, 120}

RECURSIVE EstablishedWith(_, _, _, _)
EstablishedWith(S, time, choice, k) ==
  IF k = RouteHumans * RouteHumans THEN S
  ELSE EstablishedWith(
         IF PairAt(k, FALSE) \in RoutePairs /\ choice[PairAt(k, FALSE)] # <<>>
         THEN agent_establish_trusts(S, time, PairAt(k, FALSE)[1], PairAt(k, FALSE)[2],
                                     choice[PairAt(k, FALSE)][1],
                                     choice[PairAt(k, FALSE)][2])
         ELSE S,
         time, choice, k + 1)

HopNetwork(choice) == EstablishedWith(MintedPopulation, 1, choice, 0)

InitHops ==
  \E choice \in [RoutePairs -> HopTrusts \cup {<<>>}], time \in HopTimes :
    InitFrom(HopNetwork(choice), time)

NextHops ==
  \E p \in RoutePairs, a \in HopAmounts : RouteTransfer(p[1], p[2], a)

SpecHops == InitHops /\ [][NextHops]_vars

(***************************************************************************)
(* The calls that move value, made on the same networks an hour after the  *)
(* trusts were established: Hub.mint, Hub.burn, Hub.transfer and the       *)
(* multi-hop HubAgent.transfer                                             *)
(***************************************************************************)
FrameTime == 2
FrameAmounts == {40, 80}

InitTrustFrame ==
  \E choice \in [RoutePairs -> HopTrusts \cup {<<>>}] :
    InitFrom(HopNetwork(choice), FrameTime)

NextTrustFrame ==
  \/ \E h \in 1..RouteHumans : calls < MaxRouteCalls /\ HubMint(h, current_time)
  \/ \E h \in 1..RouteHumans, a \in FrameAmounts :
        calls < MaxRouteCalls /\ HubBurn(h, a, current_time)
  \/ \E p \in RoutePairs, a \in FrameAmounts :
        calls < MaxRouteCalls /\ HubTransfer(p[1], p[2], a, current_time)
  \/ \E p \in RoutePairs, a \in FrameAmounts : RouteTransfer(p[1], p[2], a)

SpecTrustFrame == InitTrustFrame /\ [][NextTrustFrame]_vars

(***************************************************************************)
(* Circles.calculate_issuance as a function of the last mint time and the  *)
(* current time: one human registered at time m (its mint record is {m}),  *)
(* the clock at t, m at most a day after t.                                *)
(***************************************************************************)
MaxIssuanceCalls == 1
MintTimes == {0, 1, 23, 24, 40, 63, 64, 65, 100, 336, 376, 399, 400}
IssuanceTimes == {1, 24, 25, 47, 48, 337, 360, 361, 385, 400}

InitIssuance ==
  \E m \in MintTimes, t \in IssuanceTimes :
    /\ m <= t + DAYS
    /\ avatars = register_human(HumanEnvironment, m, 1, None, Z(50)).env
    /\ next_human_id = 1
    /\ current_time = t
    /\ G = add_node(EmptyGraph, 1)
    /\ pre = avatars
    /\ last = Call("init", [raised |-> "none"], None, None, 0, t)
    /\ calls = 0

\* a call of calculate_issuance; last keeps what it returned
IssuanceCall(r, human_id) ==
  /\ calls < MaxIssuanceCalls
  /\ calls' = calls + 1
  /\ pre' = avatars
  /\ last' = [op |-> "calculate_issuance", raised |-> r.raised,
              a |-> human_id, b |-> None, amount |-> 0, time |-> current_time,
              issuance |-> r.issuance,
              claimable_period_start |-> r.claimable_period_start,
              claimable_period_end |-> r.claimable_period_end]
  /\ UNCHANGED <<avatars, next_human_id, current_time, G>>

CalculateIssuance(human_id) ==
  /\ human_id \in DOMAIN avatars.mints
  /\ IssuanceCall(calculate_issuance(DOMAIN avatars.mints[human_id], current_time),
                  human_id)

NextIssuance == \E h \in Humans : CalculateIssuance(h)

SpecIssuance == InitIssuance /\ [][NextIssuance]_vars

(***************************************************************************)
(* add_fixed and sub_fixed on operands at the ends and in the middle of    *)
(* the 128-bit range                                                       *)
(***************************************************************************)
MaxFixedCalls == 1
\* 2^127 - 1
Int128Max == ZSub(ZNeg(MIN_64x64), Z(1))
FixedOperands ==
  {MIN_64x64, ZAdd(MIN_64x64, Z(1)), ZNeg(TwoTo64), Z(-1), Z0, Z(1), TwoTo64,
   ZSub(MAX_64x64, Z(1)), MAX_64x64, ZAdd(MAX_64x64, Z(1)), Int128Max}

InitFixed ==
  \E x \in FixedOperands, y \in FixedOperands :
    /\ avatars = HumanEnvironment
    /\ next_human_id = 0
    /\ current_time = 0
    /\ G = EmptyGraph
    /\ pre = avatars
    /\ last = [op |-> "init", raised |-> "none", x |-> x, y |-> y, value |-> Z0]
    /\ calls = 0

\* a call of add_fixed or sub_fixed on the operands drawn; last keeps the result
FixedCall(op, r) ==
  /\ calls < MaxFixedCalls
  /\ calls' = calls + 1
  /\ last' = [op |-> op, raised |-> IF r.raised THEN "OverflowError" ELSE "none",
              x |-> last.x, y |-> last.y, value |-> r.value]
  /\ UNCHANGED <<avatars, next_human_id, current_time, G, pre>>

AddFixed == FixedCall("add_fixed", add_fixed(last.x, last.y))
SubFixed == FixedCall("sub_fixed", sub_fixed(last.x, last.y))

NextFixed == AddFixed \/ SubFixed

SpecFixed == InitFixed /\ [][NextFixed]_vars

(***************************************************************************)
(* Demurrage.calculate_discounted_balance on positive balances from one    *)
(* unit to MAX_VALUE and on day counts from 0 to MaxDayDiff                *)
(***************************************************************************)
MaxDayDiff == 4
MaxDiscountCalls == 1
DiscountBalances ==
  {Z(1), Z(2), Z(5000), Z(5422), EXA, ZAdd(EXA, Z(1)), ZMul(Z(50), EXA), TwoTo64,
   MAX_64x64, Int128Max, CeilingBalance, MAX_VALUE}

InitDemurrage ==
  \E balance \in DiscountBalances, day_diff \in 0..MaxDayDiff :
    /\ avatars = HumanEnvironment
    /\ next_human_id = 0
    /\ current_time = 0
    /\ G = EmptyGraph
    /\ pre = avatars
    /\ last = [op |-> "init", raised |-> "none", balance |-> balance,
               day_diff |-> day_diff, value |-> Z0]
    /\ calls = 0

\* a call of calculate_discounted_balance on the inputs drawn
CalculateDiscountedBalance ==
  /\ calls < MaxDiscountCalls
  /\ calls' = calls + 1
  /\ last' = [op |-> "calculate_discounted_balance", raised |-> "none",
              balance |-> last.balance, day_diff |-> last.day_diff,
              value |-> calculate_discounted_balance(last.balance, last.day_diff)]
  /\ UNCHANGED <<avatars, next_human_id, current_time, G, pre>>

NextDemurrage == CalculateDiscountedBalance

SpecDemurrage == InitDemurrage /\ [][NextDemurrage]_vars

(***************************************************************************)
(* HubAgent.calculate_gini on populations of 0 to GiniHumans humans        *)
(* registered with a balance of 0, 50 or 100 (mul_fixed of 0, 923, 1845    *)
(* with EXA).  The float the code returns is kept as the exact fraction    *)
(* num / den it is computed from.                                          *)
(***************************************************************************)
GiniHumans == 4
MaxGiniCalls == 1
GiniNativeBalances == {0, 923, 1845}

\* balances.sort(): the latest self-balances in ascending order
RECURSIVE Ascending(_, _)
Ascending(E, S) ==
  IF S = {} THEN <<>>
  ELSE LET least == CHOOSE h \in S :
                      \A k \in S : ZLe(Latest(E.balance[h][h]), Latest(E.balance[k][k]))
       IN  <<Latest(E.balance[least][least])>> \o Ascending(E, S \ {least})

\* sum(balances)
RECURSIVE SumOf(_, _)
SumOf(balances, i) ==
  IF i > Len(balances) THEN Z0 ELSE ZAdd(balances[i], SumOf(balances, i + 1))

\* n * sum(index[i] * balances[i] for i in range(n)) with index[i] = i / n;
\* balances[i] of the code is balances[i + 1] here
RECURSIVE IndexedSum(_, _)
IndexedSum(balances, i) ==
  IF i > Len(balances) THEN Z0
  ELSE ZAdd(ZMul(Z(i - 1), balances[i]), IndexedSum(balances, i + 1))

\* 1 - 2 * sum(index[i] * balances[i]) / sum(balances)
\*   = (n * sum(balances) - 2 * IndexedSum) / (n * sum(balances))
gini_of(balances) ==
  IF balances = <<>> THEN [raised |-> "none", num |-> Z0, den |-> Z(1)]
  ELSE IF SumOf(balances, 1) = Z0
  THEN [raised |-> "ZeroDivisionError", num |-> Z0, den |-> Z(1)]
  ELSE [raised |-> "none",
        num |-> ZSub(ZMul(Z(Len(balances)), SumOf(balances, 1)),
                     ZMul(Z(2), IndexedSum(balances, 1))),
        den |-> ZMul(Z(Len(balances)), SumOf(balances, 1))]

calculate_gini(E) == gini_of(Ascending(E, DOMAIN E.balance))

\* n humans registered at time 0, human k with the native balance init[k]
RECURSIVE GiniPopulation(_, _)
GiniPopulation(init, k) ==
  IF k = 0 THEN HumanEnvironment
  ELSE register_human(GiniPopulation(init, k - 1), 0, k, None, Z(init[k])).env

InitGini ==
  \E n \in 0..GiniHumans :
    \E init \in [1..n -> GiniNativeBalances] :
      /\ avatars = GiniPopulation(init, n)
      /\ next_human_id = n
      /\ current_time = 0
      /\ G = EmptyGraph
      /\ pre = avatars
      /\ last = [op |-> "init", raised |-> "none", num |-> Z0, den |-> Z(1)]
      /\ calls = 0

GiniCall(r) ==
  /\ calls < MaxGiniCalls
  /\ calls' = calls + 1
  /\ last' = [op |-> "calculate_gini", raised |-> r.raised, num |-> r.num, den |-> r.den]
  /\ UNCHANGED <<avatars, next_human_id, current_time, G, pre>>

CalculateGini == GiniCall(calculate_gini(avatars))

NextGini == CalculateGini

SpecGini == InitGini /\ [][NextGini]_vars

(***************************************************************************)
(* HumanEnvironment.update_balance called on the ledger directly           *)
(***************************************************************************)
BalanceChanges == {-3, -2, -1, 1, 2}

\* last keeps the value returned
LedgerCall(r, time, human_id, change) ==
  /\ calls < MaxCalls
  /\ calls' = calls + 1
  /\ avatars' = r.env
  /\ pre' = avatars
  /\ last' = [op |-> "update_balance", raised |-> r.raised, a |-> human_id,
              b |-> None, amount |-> change, time |-> time, ret |-> r.ret]
  /\ UNCHANGED <<next_human_id, current_time, G>>

UpdateBalance(time, human_id, change) ==
  LedgerCall(update_balance(avatars, time, human_id, Z(change)), time, human_id, change)

NextLedger ==
  \E t \in Times, h \in Humans, change \in BalanceChanges : UpdateBalance(t, h, change)

SpecLedger == Init /\ [][NextLedger]_vars

(***************************************************************************)
(* Properties.  pre is the ledger before the last call and last the call:  *)
(* for the Hub calls last.a and last.b are (human_id, invited_by) of       *)
(* register_human, (new_human_id, invited_by) of invite_human and          *)
(* (sender_id, receiver_id) of transfer.                                   *)
(***************************************************************************)
ZEq(x, y) == ZCmp(x, y) = 0
Registered(E, h) == h \in DOMAIN E.balance
OwnBalance(E, h) == Latest(E.balance[h][h])
HasEdge(E, truster, trustee) ==
  truster \in DOMAIN E.trusts /\ trustee \in DOMAIN E.trusts[truster]
InvitationCost == ZMul(Z(10), EXA)

\* C1: in every reachable state the amount at the latest timestamp of every
\* (holder, issuer) balance record is >= 0.  HubAgent.transfer breaks it: after
\* Hub.transfer has debited the sending node of a hop, the agent writes
\* balance - amount for that node a second time, without any check.
C1_LatestBalancesNonNegative ==
  \A h \in DOMAIN avatars.balance : \A c \in DOMAIN avatars.balance[h] :
    ZGe(Latest(avatars.balance[h][c]), Z0)

\* C2: a Hub.transfer that succeeds with amount > 0 leaves the sender's current
\* self-balance at its value before minus amount and the receiver's at its value
\* before plus amount.  update_balance writes only a balance > 0, so a transfer
\* of the sender's whole balance credits the receiver and debits nobody.
C2_TransferMovesAmount ==
  (last.op = "transfer" /\ last.raised = "none" /\ last.amount > 0) =>
    /\ ZEq(OwnBalance(avatars, last.a), ZSub(OwnBalance(pre, last.a), Z(last.amount)))
    /\ ZEq(OwnBalance(avatars, last.b), ZAdd(OwnBalance(pre, last.b), Z(last.amount)))

\* C3: Hub.transfer is atomic: a call that raises leaves balance, supply, mint
\* and trust records as they were.  The supply refresh raises after both balance
\* writes once current_time lies in a later day than the latest supply entry.
C3_TransferAtomic ==
  (last.op = "transfer" /\ last.raised # "none") =>
    /\ avatars.balance = pre.balance
    /\ avatars.supply = pre.supply
    /\ avatars.mints = pre.mints
    /\ avatars.trusts = pre.trusts

\* C4: after register(time, A, init_balance = b) the current self-balance of A
\* is exactly b * EXA and the initial supply entry holds the same amount.  The
\* code stores mul_fixed(b, EXA), which is b * EXA / 2^64 truncated.
C4_RegisterStoresInitBalance ==
  (last.op = "register_human" /\ last.raised = "none") =>
    /\ ZEq(OwnBalance(avatars, last.a), ZMul(Z(last.amount), EXA))
    /\ ZEq(avatars.supply[last.a][last.time], ZMul(Z(last.amount), EXA))

\* C5: register, directly or through invite, with an id that is already
\* registered fails with DuplicateAccount and leaves the account's traits,
\* balance, supply and mint records and the population count unchanged.  The
\* code has no such check: add_human overwrites the account and counts it again.
C5_DuplicateRegistrationRejected ==
  (last.op \in {"register_human", "invite_human"} /\ last.a \in DOMAIN pre.traits) =>
    /\ last.raised = "DuplicateAccount"
    /\ avatars.traits[last.a] = pre.traits[last.a]
    /\ avatars.balance[last.a] = pre.balance[last.a]
    /\ avatars.supply[last.a] = pre.supply[last.a]
    /\ avatars.mints[last.a] = pre.mints[last.a]
    /\ avatars.population_size = pre.population_size

\* C6: a successful invite reduces the inviter's current self-balance by exactly
\* 10 * EXA, and an invite by an inviter whose self-balance is smaller than that
\* fails with InsufficientBalance; stated for the invite of an id that is not
\* registered yet.  The code charges mul_fixed(10, EXA) = 0.
C6_InviteCharges ==
  (/\ last.op = "invite_human"
   /\ Registered(pre, last.b)
   /\ ~Registered(pre, last.a)) =>
    /\ last.raised = "none" =>
         ZEq(OwnBalance(avatars, last.b),
             ZSub(OwnBalance(pre, last.b), InvitationCost))
    /\ ZLt(OwnBalance(pre, last.b), InvitationCost) =>
         last.raised = "ValueError: Insufficient balance for invitation"

\* C7: invite is all-or-nothing: a failed invite registers no account, creates
\* no trust edge and leaves the inviter's balance record alone; a successful one
\* has new_id registered at the current time and a trust edge inviter -> new_id
\* with duration 1e9; stated for the invite of an id that is not registered yet.
\* add_trust keeps an edge that is already there, and establish_trusts accepts a
\* trustee that is not registered yet.
C7_InviteAllOrNothing ==
  (last.op = "invite_human" /\ ~Registered(pre, last.a)) =>
    IF last.raised # "none"
    THEN avatars = pre
    ELSE /\ last.a \in DOMAIN avatars.traits
         /\ avatars.traits[last.a].created_at = last.time
         /\ HasEdge(avatars, last.b, last.a)
         /\ avatars.trusts[last.b][last.a].duration = DefaultDuration

\* what Hub.transfer checks before it looks at the trust edge
FundedSender(E, sender_id, receiver_id, amount) ==
  /\ sender_id # receiver_id
  /\ Registered(E, sender_id)
  /\ ZGe(OwnBalance(E, sender_id), Z(amount))

\* C8 (amended): Hub.transfer succeeds only if the edge truster = receiver,
\* trustee = sender exists; when only the opposite edge exists and the sender is
\* a registered account, other than the receiver, whose self-balance covers the
\* amount, the transfer fails with "Receiver does not trust sender" and changes
\* no state.
C8_TransferNeedsTrustOfReceiver ==
  (last.op = "transfer") =>
    /\ last.raised = "none" => HasEdge(pre, last.b, last.a)
    /\ (/\ FundedSender(pre, last.a, last.b, last.amount)
        /\ HasEdge(pre, last.a, last.b)
        /\ ~HasEdge(pre, last.b, last.a)) =>
         (last.raised = "ValueError: Receiver does not trust sender" /\ avatars = pre)

\* C8 as stated: whenever only the opposite edge (sender trusts receiver) exists
\* the transfer fails with NoTrust.  The balance check comes first, so an
\* underfunded or unregistered sender gets another error.
C8_AsStated ==
  (last.op = "transfer" /\ HasEdge(pre, last.a, last.b) /\ ~HasEdge(pre, last.b, last.a)) =>
    (last.raised = "ValueError: Receiver does not trust sender" /\ avatars = pre)

\* C8 witness: a funded sender who trusts the receiver, but is not trusted by
\* it, was refused for lack of trust.
C8_OnlyOppositeEdgeRefused ==
  /\ last.op = "transfer"
  /\ FundedSender(pre, last.a, last.b, last.amount)
  /\ HasEdge(pre, last.a, last.b)
  /\ ~HasEdge(pre, last.b, last.a)
  /\ last.raised = "ValueError: Receiver does not trust sender"

\* C9 (amended): with the receiver -> sender edge present and a registered
\* sender, other than the receiver, whose self-balance covers the amount,
\* Hub.transfer fails with "Transfer amount exceeds trust amount", changing no
\* state, whenever amount exceeds the capacity of the edge; an amount equal to
\* the capacity passes the check.
C9_CapacityBoundsTransfer ==
  (/\ last.op = "transfer"
   /\ FundedSender(pre, last.a, last.b, last.amount)
   /\ HasEdge(pre, last.b, last.a)) =>
    IF ZGt(Z(last.amount), pre.trusts[last.b][last.a].amount)
    THEN last.raised = "ValueError: Transfer amount exceeds trust amount" /\ avatars = pre
    ELSE last.raised # "ValueError: Transfer amount exceeds trust amount"

\* C9 as stated: whenever amount exceeds the capacity of the receiver -> sender
\* edge the transfer fails with InsufficientTrust.  The balance check comes
\* first, so the error is another one when the balance is too small as well.
C9_AsStated ==
  (/\ last.op = "transfer"
   /\ HasEdge(pre, last.b, last.a)
   /\ ZGt(Z(last.amount), pre.trusts[last.b][last.a].amount)) =>
    (last.raised = "ValueError: Transfer amount exceeds trust amount" /\ avatars = pre)

\* C9 witness: a transfer the sender's balance covers was refused because it
\* exceeds the capacity of the receiver's trust.
C9_OverCapacityRefused ==
  /\ last.op = "transfer"
  /\ FundedSender(pre, last.a, last.b, last.amount)
  /\ HasEdge(pre, last.b, last.a)
  /\ ZGt(Z(last.amount), pre.trusts[last.b][last.a].amount)
  /\ last.raised = "ValueError: Transfer amount exceeds trust amount"

C11_FirstTrustWins ==
  /\ \A t \in DOMAIN pre.trusts : \A o \in DOMAIN pre.trusts[t] :
        HasEdge(avatars, t, o) /\ avatars.trusts[t][o] = pre.trusts[t][o]
  /\ (last.op = "establish_trusts" /\ ~HasEdge(pre, last.a, last.b)) =>
        /\ HasEdge(avatars, last.a, last.b)
        /\ avatars.trusts[last.a][last.b].created_at = last.time
        /\ avatars.trusts[last.a][last.b].amount = mul_fixed(Z(last.amount), EXA)
        /\ \E v \in TrustInputs :
              v[1] = last.amount /\ avatars.trusts[last.a][last.b].duration = v[2]

\* C11 witness: establish_trusts was called for a pair that has an edge, with
\* another value and at another time than the edge records, and the edge
\* stayed as it was.
C11_LaterCallIgnored ==
  /\ last.op = "establish_trusts"
  /\ last.raised = "none"
  /\ HasEdge(pre, last.a, last.b)
  /\ pre.trusts[last.a][last.b].amount # mul_fixed(Z(last.amount), EXA)
  /\ pre.trusts[last.a][last.b].created_at # last.time
  /\ avatars.trusts[last.a][last.b] = pre.trusts[last.a][last.b]

\* the issuance Hub.mint computes for a registered account at a time
IssuanceAt(E, human_id, time) == calculate_issuance(DOMAIN E.mints[human_id], time)

\* C12: a Hub.mint whose computed issuance is <= 0 (zero at the time of the
\* last mint, negative before it) returns the no-issuance result without
\* raising and leaves balance, supply and mint records unchanged.  For a
\* negative issuance calculate_issuance reaches print(..., T(1), ...), and T is
\* not a name of circles.py: the call ends in a NameError.
C12_NoIssuanceMintReturns ==
  (/\ last.op = "mint"
   /\ Registered(pre, last.a)
   /\ IssuanceAt(pre, last.a, last.time).raised # "OverflowError"
   /\ ZLe(IssuanceAt(pre, last.a, last.time).issuance, Z0)) =>
    /\ last.raised = "none"
    /\ avatars.balance = pre.balance
    /\ avatars.supply = pre.supply
    /\ avatars.mints = pre.mints

\* C13: after every successful Hub.mint the new supply entry is the previous
\* supply discounted over d days, plus the issuance, d being the day of
\* current_time minus the day of the timestamp of the previous supply entry,
\* and d >= 0.  Hub.mint passes max(supply.keys()), a timestamp, where
\* mint_and_update_total_supply expects a day: the supply is discounted over
\* day(current_time) - timestamp days, a count that is too small and can be
\* negative.
C13_SupplyDiscountedOverElapsedDays ==
  (/\ last.op = "mint"
   /\ last.raised = "none"
   /\ Registered(pre, last.a)
   /\ ZGt(IssuanceAt(pre, last.a, last.time).issuance, Z0)) =>
    LET previous == SetMax(DOMAIN pre.supply[last.a])
        d == day_since_day0(last.time) - day_since_day0(previous)
    IN  /\ d >= 0
        /\ ZEq(avatars.supply[last.a][last.time],
               ZAdd(calculate_discounted_balance(pre.supply[last.a][previous], d),
                    IssuanceAt(pre, last.a, last.time).issuance))

\* the supply Hub.mint may not exceed: the previous supply discounted over the
\* days that passed since its entry, plus the issuance
SupplyAfterIssuance(E, human_id, time) ==
  LET previous == SetMax(DOMAIN E.supply[human_id])
  IN  ZAdd(calculate_discounted_balance(
             E.supply[human_id][previous],
             day_since_day0(time) - day_since_day0(previous)),
           IssuanceAt(E, human_id, time).issuance)

\* C14: when the discounted supply plus the issuance would exceed MAX_VALUE,
\* Hub.mint does not raise and changes no state: supply, self-balance and mint
\* history stay as they were.  mint_and_update_total_supply hands back the old
\* supply, but Hub.mint goes on all the same: it records the mint, writes a
\* supply entry at current_time and credits the issuance to the balance.
\* Stated for a mint that is not earlier than the latest supply entry.
C14_CeilingMintChangesNothing ==
  (/\ last.op = "mint"
   /\ Registered(pre, last.a)
   /\ IssuanceAt(pre, last.a, last.time).raised = "none"
   /\ ZGt(IssuanceAt(pre, last.a, last.time).issuance, Z0)
   /\ last.time >= SetMax(DOMAIN pre.supply[last.a])
   /\ ZGt(SupplyAfterIssuance(pre, last.a, last.time), MAX_VALUE)) =>
    /\ last.raised = "none"
    /\ avatars.supply = pre.supply
    /\ avatars.balance = pre.balance
    /\ avatars.mints = pre.mints

\* C15: Hub.burn fails, changing no state, when the account's self-balance is
\* smaller than amount; otherwise, the whole balance included, the current
\* self-balance and the latest supply are both reduced by exactly amount.
\* update_balance writes only a balance > 0: burning the whole balance lowers
\* the supply and leaves the balance where it was.
C15_BurnReducesBalanceAndSupply ==
  (last.op = "burn" /\ Registered(pre, last.a) /\ last.amount > 0) =>
    IF ZLt(OwnBalance(pre, last.a), Z(last.amount))
    THEN last.raised # "none" /\ avatars = pre
    ELSE /\ last.raised = "none"
         /\ ZEq(OwnBalance(avatars, last.a),
                ZSub(OwnBalance(pre, last.a), Z(last.amount)))
         /\ ZEq(Latest(avatars.supply[last.a]),
                ZSub(Latest(pre.supply[last.a]), Z(last.amount)))

\* the accounts whose records the last call writes, and the latest timestamp
\* of the balance, supply and mint records of an account
WrittenBy(call) ==
  CASE call.op \in {"mint", "burn"} -> {call.a}
    [] call.op = "transfer" -> {call.a, call.b}
    [] call.op = "invite_human" -> {call.b}
    [] OTHER -> {}
LatestStamp(E, h) ==
  SetMax(DOMAIN E.balance[h][h] \cup DOMAIN E.supply[h] \cup DOMAIN E.mints[h])

\* C16: an invite, mint, burn or transfer whose time is strictly earlier than
\* the latest timestamp of a record it would write is rejected with
\* TemporalOrderViolation and changes no state.  The Hub never compares
\* current_time with the timestamps it holds: the call goes through and writes
\* its entries at the earlier time.
C16_EarlierTimeRejected ==
  (/\ WrittenBy(last) # {}
   /\ \A h \in WrittenBy(last) : Registered(pre, h)
   /\ \E h \in WrittenBy(last) : last.time < LatestStamp(pre, h)) =>
    (last.raised = "TemporalOrderViolation" /\ avatars = pre)

\* every entry of the timestamped record before is in the one after, unchanged
KeepsEntries(before, after) ==
  \A t \in DOMAIN before : t \in DOMAIN after /\ after[t] = before[t]

\* C17: balance, supply and mint records are append-only: no call removes an
\* entry or changes the value at a timestamp that is there, also when several
\* calls on an account are made at the same current_time.  The records are
\* dicts keyed by current_time and every write is an assignment: a second
\* write at a timestamp replaces the entry.  Stated for the calls other than
\* the registration of an id that is registered already, which replaces the
\* records of the account as a whole.
C17_RecordsAppendOnly ==
  ~(last.op \in {"register_human", "invite_human"} /\ last.a \in DOMAIN pre.traits) =>
    \A h \in DOMAIN pre.balance :
      /\ h \in DOMAIN avatars.balance
      /\ \A c \in DOMAIN pre.balance[h] :
            /\ c \in DOMAIN avatars.balance[h]
            /\ KeepsEntries(pre.balance[h][c], avatars.balance[h][c])
      /\ KeepsEntries(pre.supply[h], avatars.supply[h])
      /\ KeepsEntries(pre.mints[h], avatars.mints[h])

\* the account ids that hold or issue a balance, issue a supply or mint
\* record, or are truster or trustee of a trust edge
Participants(E) ==
  DOMAIN E.balance
    \cup UNION {DOMAIN E.balance[h] : h \in DOMAIN E.balance}
    \cup DOMAIN E.supply
    \cup DOMAIN E.mints
    \cup DOMAIN E.trusts
    \cup UNION {DOMAIN E.trusts[h] : h \in DOMAIN E.trusts}

\* C18: every account id that appears as holder or issuer of a balance, as
\* issuer of a supply or mint record, or as truster or trustee of a trust edge
\* is a registered account; establish_trusts creates no edge that names an
\* unregistered one.  establish_trusts and add_trust check neither id.
C18_ParticipantsRegistered ==
  Participants(avatars) \subseteq DOMAIN avatars.traits

\* what a finder computes as the amount a candidate path carries
RouteMax(finder, E, path, amount) ==
  IF finder = "HubAgent" THEN get_max_transfer_amount(E, path, amount)
  ELSE PathFinder_get_max_transfer_amount(E, path, amount)

\* found is a shortest one of the candidates that carry the amount; if none
\* carries it, a candidate that carries the most; no path if none carries
\* anything
IsOptimalRoute(finder, E, paths, amount, found) ==
  LET carrying == {i \in 1..Len(paths) : ZGe(RouteMax(finder, E, paths[i], amount), amount)}
      positive == {i \in 1..Len(paths) : ZGt(RouteMax(finder, E, paths[i], amount), Z0)}
  IN  IF carrying # {}
      THEN \E i \in carrying :
             /\ found.optimal_path = paths[i]
             /\ found.max_transferable = RouteMax(finder, E, paths[i], amount)
             /\ \A j \in carrying : Len(paths[i]) <= Len(paths[j])
      ELSE IF positive # {}
      THEN \E i \in positive :
             /\ found.optimal_path = paths[i]
             /\ found.max_transferable = RouteMax(finder, E, paths[i], amount)
             /\ \A j \in 1..Len(paths) :
                   ZGe(RouteMax(finder, E, paths[i], amount),
                       RouteMax(finder, E, paths[j], amount))
      ELSE found.optimal_path = <<>> /\ found.max_transferable = Z0

\* C19: find_optimal_transfer_path, of HubAgent and of PathFinder: for every
\* trust graph, balances and order in which the candidate paths are
\* enumerated, if some candidate carries the amount (max_transferable >=
\* amount) the path returned is a candidate of minimum length among those that
\* do; otherwise it is a candidate with the largest max_transferable, and no
\* path, with value 0, when every candidate carries nothing.
C19_OptimalRouteReturned ==
  (last.op = "find_optimal_transfer_path" /\ last.raised = "none") =>
    IsOptimalRoute(last.finder, pre, find_transfer_paths(G, last.a, last.b).paths,
                   Z(last.amount), last)

\* C19 witness: two candidates carry the amount, the longer one is enumerated
\* first, and the shorter one was returned.
C19_ShorterRouteReturned ==
  /\ last.op = "find_optimal_transfer_path"
  /\ last.finder = "HubAgent"
  /\ Len(find_transfer_paths(G, last.a, last.b).paths) = 2
  /\ \A i \in 1..2 :
        ZGe(get_max_transfer_amount(pre, find_transfer_paths(G, last.a, last.b).paths[i],
                                    Z(last.amount)),
            Z(last.amount))
  /\ Len(find_transfer_paths(G, last.a, last.b).paths[1])
       > Len(find_transfer_paths(G, last.a, last.b).paths[2])
  /\ last.optimal_path = find_transfer_paths(G, last.a, last.b).paths[2]

\* the trust edges of E are exactly c trusts b with capacity 100 and b trusts a
\* with capacity 50
TrustChain(E, a, b, c) ==
  /\ DOMAIN E.trusts = {c, b}
  /\ DOMAIN E.trusts[c] = {b}
  /\ DOMAIN E.trusts[b] = {a}
  /\ E.trusts[c][b].amount = Z(100)
  /\ E.trusts[b][a].amount = Z(50)

\* C20: in a chain where C trusts B and B trusts A, with capacities 100 and 50
\* and balances that cover the amounts, a request of 40 from C to A is routed
\* through B, and a request of 80 finds no route for the full amount and
\* reports the route through B with max_transferable 50.  The candidates are
\* the paths of the graph from the receiver A to the sender C along trust
\* edges, and A trusts nobody: no candidate is found and the result is no path
\* with value 0 for either request.
C20_ChainRoutedThroughMiddle ==
  (/\ last.op = "find_optimal_transfer_path"
   /\ last.raised = "none"
   /\ \A h \in {last.a, last.b} : ZGe(OwnBalance(pre, h), Z(last.amount))
   /\ \E b \in DOMAIN pre.balance \ {last.a, last.b} :
         TrustChain(pre, last.b, b, last.a) /\ ZGe(OwnBalance(pre, b), Z(last.amount))) =>
    /\ Len(last.optimal_path) = 3
    /\ last.amount = 40 => ZGe(last.max_transferable, Z(40))
    /\ last.amount = 80 => last.max_transferable = Z(50)

\* the path HubAgent.transfer got from find_optimal_transfer_path in the last
\* call, and whether the call went through all its hops
RouteOf(call) == find_optimal_transfer_path(pre, G, call.a, call.b, Z(call.amount))
RouteExecuted(call) ==
  /\ call.op = "transfer"
  /\ call.raised = "none"
  /\ RouteOf(call).raised = "none"
  /\ RouteOf(call).optimal_path # <<>>
  /\ ZGe(RouteOf(call).max_transferable, Z(call.amount))

\* the hops along a path as HubAgent.transfer makes them: path[i] pays path[i+1]
FirstPayer(path) == path[1]
LastPayee(path) == path[Len(path)]

\* C21: a successful multi-hop HubAgent.transfer(sender, receiver, amount)
\* makes its hops along the found path reversed: the first hop debits the
\* sender, the last hop credits the receiver, in every hop (from, to) it is
\* `to` that trusts `from`, and value moves from the sender towards the
\* receiver.  The path runs from the receiver to the sender and the hops are
\* made along it as it is: the first hop debits the receiver and the last one
\* credits the sender.
C21_HopsRunFromSenderToReceiver ==
  (RouteExecuted(last) /\ Len(RouteOf(last).optimal_path) >= 3) =>
    /\ FirstPayer(RouteOf(last).optimal_path) = last.a
    /\ LastPayee(RouteOf(last).optimal_path) = last.b
    /\ \A i \in 1..(Len(RouteOf(last).optimal_path) - 1) :
          HasEdge(pre, RouteOf(last).optimal_path[i + 1], RouteOf(last).optimal_path[i])
    /\ ZLt(OwnBalance(avatars, last.a), OwnBalance(pre, last.a))

\* the ledger after Hub.transfer for every hop of the path, and nothing else
RECURSIVE HubTransfersAlong(_, _, _, _, _)
HubTransfersAlong(E, path, amount, time, i) ==
  IF i > Len(path) - 1 THEN E
  ELSE HubTransfersAlong(transfer(E, path[i], path[i + 1], amount, time).env,
                         path, amount, time, i + 1)

\* C22: the ledger after a multi-hop HubAgent.transfer is the one the per-hop
\* Hub.transfer calls produce: nothing is written outside the Hub, so every
\* hop lowers the paying account's self-balance by amount once and raises the
\* paid account's holdings by amount once.  HubAgent.transfer writes two more
\* balance entries per hop itself: the payer's self-balance minus amount a
\* second time, and a balance of the payer's currency for the paid account.
C22_OnlyHubWritesLedger ==
  (RouteExecuted(last) /\ Len(RouteOf(last).optimal_path) >= 3) =>
    avatars = HubTransfersAlong(pre, RouteOf(last).optimal_path, Z(last.amount),
                                last.time, 1)

\* the issuance calculate_issuance returns for another last mint time at the
\* time of the last call
IssuanceFrom(m) == calculate_issuance({m}, last.time)
IssuanceReturned == last.op = "calculate_issuance" /\ last.raised = "none"
LastMintTime == SetMax(DOMAIN avatars.mints[last.a])

\* C23: at a fixed current_time, calculate_issuance returns the same issuance
\* for every last mint time that lies MAX_CLAIM_DURATION = 336 ticks or more
\* before current_time, and for no later last mint time a larger one.
C23_IssuanceCappedAtClaimWindow ==
  IssuanceReturned =>
    \A m \in MintTimes :
      (m <= last.time + DAYS /\ IssuanceFrom(m).raised = "none") =>
        /\ (m <= last.time - 336 /\ LastMintTime <= last.time - 336) =>
              IssuanceFrom(m).issuance = last.issuance
        /\ m >= LastMintTime => ZLe(IssuanceFrom(m).issuance, last.issuance)

\* the window is capped and compared with another capped and an uncapped one
C23_CappedIssuanceReturned ==
  /\ IssuanceReturned
  /\ last.time = 400
  /\ LastMintTime = 0
  /\ last.issuance = IssuanceFrom(64).issuance
  /\ ZLt(IssuanceFrom(65).issuance, last.issuance)

\* C24: calculate_issuance is strictly positive whenever current_time is
\* later than the last mint time; for mint_times = {0} and current_time = 24
\* it is 24 * GAMMA * EXA up to the rounding of the fixed-point arithmetic
\* (here: within one unit of 24 * GAMMA_64x64 * EXA / 2^64).
C24_IssuancePositiveAfterLastMint ==
  (last.op = "calculate_issuance" /\ last.time > LastMintTime) =>
    /\ last.raised = "none"
    /\ ZGt(last.issuance, Z0)
    /\ (LastMintTime = 0 /\ last.time = 24) =>
          /\ ZLe(ZMul(ZSub(last.issuance, Z(1)), TwoTo64),
                 ZMul(Z(24), ZMul(GAMMA_64x64, EXA)))
          /\ ZGe(ZMul(ZAdd(last.issuance, Z(1)), TwoTo64),
                 ZMul(Z(24), ZMul(GAMMA_64x64, EXA)))

C24_FirstDayIssued ==
  /\ IssuanceReturned
  /\ LastMintTime = 0
  /\ last.time = 24
  /\ ZGt(last.issuance, Z0)

\* the exact sum or difference of the operands of the last call
ExactResult ==
  IF last.op = "add_fixed" THEN ZAdd(last.x, last.y) ELSE ZSub(last.x, last.y)

\* C25: add and sub return the exact sum or difference when it lies in
\* [-2^127, 2^127 - 1] and raise an overflow error exactly when it lies
\* outside: no wrapping, and no representable result rejected.  The upper
\* bound the code compares with is MAX_64x64 = (2^63 - 1) * 2^64 =
\* 2^127 - 2^64: the results above it up to 2^127 - 1 are rejected.
C25_OverflowExactlyOutside128Bits ==
  last.op \in {"add_fixed", "sub_fixed"} =>
    IF ZGe(ExactResult, ZNeg(ZAdd(Int128Max, Z(1)))) /\ ZLe(ExactResult, Int128Max)
    THEN last.raised = "none" /\ last.value = ExactResult
    ELSE last.raised = "OverflowError"

\* C26: for every balance > 0 and day_diff d >= 0, the discounted balance
\* after 0 days is the balance itself, and
\* discounted(balance, d + 1) <= discounted(balance, d) <= balance.
C26_DemurrageNeverIncreases ==
  (last.op = "calculate_discounted_balance" /\ ZGt(last.balance, Z0)
     /\ last.day_diff >= 0) =>
    /\ last.day_diff = 0 => last.value = last.balance
    /\ ZLe(last.value, last.balance)
    /\ ZLe(calculate_discounted_balance(last.balance, last.day_diff + 1), last.value)

\* days have passed and the balance has shrunk, the next day shrinks it further
C26_BalanceDiscounted ==
  /\ last.op = "calculate_discounted_balance"
  /\ last.day_diff = 2
  /\ last.balance = ZMul(Z(50), EXA)
  /\ ZLt(last.value, last.balance)
  /\ ZLt(calculate_discounted_balance(last.balance, 3), last.value)

\* C27: calculate_gini returns 0 when there are no accounts, and 0.75 for the
\* self-balances [0, 0, 0, 100].  With index[i] = i / n the code computes
\* 1 - 2 * (3/4 * 100) / 100 = -0.5 for them.
C27_GiniOfOneHolder ==
  last.op = "calculate_gini" =>
    /\ DOMAIN avatars.balance = {} => (last.raised = "none" /\ last.num = Z0)
    /\ Ascending(avatars, DOMAIN avatars.balance) = <<Z0, Z0, Z0, Z(100)>> =>
          /\ last.raised = "none"
          /\ ZMul(Z(4), last.num) = ZMul(Z(3), last.den)

\* C28: update_balance(time, account, delta), amount being the latest
\* self-balance on record: if amount + delta < 0 the call fails and writes
\* nothing; otherwise it appends (time, amount + delta) and returns it, and
\* the current balance read afterwards is amount + delta, also when that is
\* exactly 0.  (Stated for a time not earlier than the latest entry, so that
\* the entry appended is the one read as current.)  The code never fails and
\* writes the new balance only if it is > 0.
C28_UpdateBalanceAppendsOrFails ==
  (last.op = "update_balance" /\ Registered(pre, last.a)
     /\ last.time >= SetMax(DOMAIN pre.balance[last.a][last.a])) =>
    IF ZLt(ZAdd(OwnBalance(pre, last.a), Z(last.amount)), Z0)
    THEN last.raised # "none" /\ avatars = pre
    ELSE /\ last.raised = "none"
         /\ last.ret = ZAdd(OwnBalance(pre, last.a), Z(last.amount))
         /\ last.time \in DOMAIN avatars.balance[last.a][last.a]
         /\ OwnBalance(avatars, last.a) = ZAdd(OwnBalance(pre, last.a), Z(last.amount))

\* the supply record update_supply is to leave for an account: the latest
\* entry discounted over the days elapsed, appended at the time of the call
\* when a day has elapsed, the record as it was otherwise
RefreshedSupply(record, time) ==
  IF day_since_day0(time) > day_since_day0(SetMax(DOMAIN record))
  THEN Put(record, time,
           calculate_discounted_balance(
             Latest(record),
             day_since_day0(time) - day_since_day0(SetMax(DOMAIN record))))
  ELSE record

\* the last call was a Hub.transfer that passed every check and moved the
\* amount: it returned, or it raised from update_supply
TransferAccepted ==
  last.op = "transfer" /\ last.raised \in {"none", "AttributeError"}

\* C29: a Hub.transfer that is accepted at current_time succeeds and refreshes
\* the supply of sender and receiver: where day_since_day0(current_time) is
\* greater than the day of the latest supply entry, an entry at current_time
\* with the latest supply discounted over the elapsed days is appended; where
\* no day has elapsed the record is unchanged; the supply of every other
\* account is unchanged.  Once a day has elapsed update_supply raises
\* AttributeError instead: no transfer succeeds and no entry is appended.
C29_TransferRefreshesSupply ==
  TransferAccepted =>
    /\ last.raised = "none"
    /\ \A h \in DOMAIN pre.supply :
          avatars.supply[h] =
            IF h \in {last.a, last.b} THEN RefreshedSupply(pre.supply[h], last.time)
            ELSE pre.supply[h]

\* the last call was a Hub.mint that returned an issuance > 0
MintedIssuance ==
  /\ last.op = "mint"
  /\ last.raised = "none"
  /\ ZGt(IssuanceAt(pre, last.a, last.time).issuance, Z0)

\* C30: after a successful Hub.mint(account, t) with issuance I > 0 the
\* current self-balance of the account has increased by exactly I, t is the
\* maximum key of its mint record, and a mint repeated at the same t finds no
\* issuance and changes no state.  A mint at a t earlier than the latest
\* balance entry is accepted and writes the new balance behind that entry:
\* the current balance does not increase.
C30_MintPaysIssuanceOnce ==
  MintedIssuance =>
    /\ OwnBalance(avatars, last.a) =
         ZAdd(OwnBalance(pre, last.a), IssuanceAt(pre, last.a, last.time).issuance)
    /\ SetMax(DOMAIN avatars.mints[last.a]) = last.time
    /\ IssuanceAt(avatars, last.a, last.time).issuance = Z0
    /\ mint(avatars, last.a, last.time).raised = "none"
    /\ mint(avatars, last.a, last.time).env = avatars

\* the two bounds of hop i of a path: the capacity path[i + 1] grants to
\* path[i], and the balance path[i] holds of its own currency
HopTrust(E, path, i) == get_trust_amount(E, path[i + 1], path[i])
HopBalance(E, path, i) == get_currency_balance(E, path[i], path[i])

\* C31: get_max_transfer_amount(path, amount), of HubAgent and of PathFinder,
\* returns the minimum of amount and, over all hops of the path, of the
\* trust capacity and the balance of the hop: the value is no larger than
\* amount or than any hop's capacity or balance, and it is one of them.
\* PathFinder leaves its loop at the first hop that lowers the value below
\* amount and returns a value that later hops do not carry.
C31_MaxTransferableIsPathMinimum ==
  last.op = "get_max_transfer_amount" =>
    /\ ZLe(last.max_amount, Z(last.amount))
    /\ \A i \in 1..(Len(last.path) - 1) :
          /\ ZLe(last.max_amount, HopTrust(avatars, last.path, i))
          /\ ZLe(last.max_amount, HopBalance(avatars, last.path, i))
    /\ \/ last.max_amount = Z(last.amount)
       \/ \E i \in 1..(Len(last.path) - 1) :
            \/ last.max_amount = HopTrust(avatars, last.path, i)
            \/ last.max_amount = HopBalance(avatars, last.path, i)

\* the last call was a HubAgent.transfer that found a route for the amount
\* and started on its hops
RouteFound(call) ==
  /\ call.op = "transfer"
  /\ RouteOf(call).raised = "none"
  /\ RouteOf(call).optimal_path # <<>>
  /\ ZGe(RouteOf(call).max_transferable, Z(call.amount))

\* the ledger after the first n hops of a path have been made in full
RECURSIVE HopsMade(_, _, _, _, _)
HopsMade(E, path, amount, time, n) ==
  IF n = 0 THEN E
  ELSE credit_receiving_node(
         debit_sending_node(
           transfer(HopsMade(E, path, amount, time, n - 1),
                    path[n], path[n + 1], amount, time).env,
           path[n], amount, time),
         path[n], path[n + 1], amount, time)

\* Hub.transfer of hop k, made after the k - 1 hops before it
HopAttempt(call, k) ==
  transfer(HopsMade(pre, RouteOf(call).optimal_path, Z(call.amount), call.time, k - 1),
           RouteOf(call).optimal_path[k], RouteOf(call).optimal_path[k + 1],
           Z(call.amount), call.time)

\* C32: the hops of a multi-hop transfer are validated and committed one by
\* one: when the Hub.transfer of hop k fails, the ledger is the one the hops
\* 1..k-1 and the failed attempt of hop k leave: the earlier hops stay
\* committed, no later hop is attempted and the failed hop is not retried.
C32_FailedHopStopsTransfer ==
  (RouteFound(last) /\ last.raised # "none") =>
    \E k \in 1..(Len(RouteOf(last).optimal_path) - 1) :
      /\ \A j \in 1..(k - 1) : HopAttempt(last, j).raised = "none"
      /\ HopAttempt(last, k).raised = last.raised
      /\ avatars = HopAttempt(last, k).env

\* the second hop of a route of two hops failed and the first is on record
C32_SecondHopFailed ==
  /\ RouteFound(last)
  /\ last.raised # "none"
  /\ Len(RouteOf(last).optimal_path) = 3
  /\ HopAttempt(last, 1).raised = "none"
  /\ HopAttempt(last, 2).raised = last.raised
  /\ avatars # pre
  /\ last.time \in DOMAIN avatars.balance[RouteOf(last).optimal_path[1]]
                                         [RouteOf(last).optimal_path[1]]
  /\ avatars.balance[RouteOf(last).optimal_path[3]] =
       pre.balance[RouteOf(last).optimal_path[3]]

\* C34: whenever find_optimal_transfer_path reports a route with
\* max_transferable >= amount, the HubAgent.transfer made at the same
\* current_time completes every hop without a failure of Hub.transfer, also
\* when an edge of the route has expired or a day has passed since the last
\* supply entry of an account.  The route is judged by capacities and
\* balances only: Hub.transfer rejects the hop over an expired edge, and
\* raises from update_supply after a day boundary.
C34_SufficientRouteCompletes ==
  RouteFound(last) => last.raised = "none"

\* C33: trust edges are read-only once established: mint, burn, Hub.transfer
\* and the multi-hop transfer leave every trust edge (amount, created_at,
\* duration) as it was.  The capacity of an edge is not used up by the
\* transfers made over it: after the call, a Hub.transfer of an amount within
\* the capacity of an edge is still not rejected for exceeding it.
C33_TrustEdgesReadOnly ==
  last.op \in {"mint", "burn", "transfer"} =>
    /\ avatars.trusts = pre.trusts
    /\ \A p \in RoutePairs, a \in FrameAmounts :
          (HasEdge(pre, p[1], p[2]) /\ ZLe(Z(a), get_trust_amount(pre, p[1], p[2]))) =>
            transfer(avatars, p[2], p[1], Z(a), last.time).raised
              # "ValueError: Transfer amount exceeds trust amount"

\* 80 was moved over an edge of capacity 100, and 80 more can be moved over
\* the same edge
C33_CapacityNotConsumed ==
  /\ last.op = "transfer"
  /\ last.raised = "none"
  /\ last.amount = 80
  /\ avatars.balance # pre.balance
  /\ HasEdge(avatars, last.b, last.a)
  /\ avatars.trusts[last.b][last.a].amount = Z(100)
  /\ transfer(avatars, last.a, last.b, Z(80), last.time).raised = "none"

\* the edges of the routing graph and the (truster, trustee) pairs on record
GraphEdges(g) ==
  UNION {{<<u, g.adj[u][i]>> : i \in 1..Len(g.adj[u])} : u \in DOMAIN g.adj}
TrustPairs(E) ==
  UNION {{<<u, v>> : v \in DOMAIN E.trusts[u]} : u \in DOMAIN E.trusts}

\* C35: after any sequence of HubAgent.register_new_human, invite_human and
\* establish_trusts calls, successful or failed, the edges of model.G are the
\* (truster, trustee) pairs of the Hub's trust records and the nodes of
\* model.G are the registered accounts.  establish_trusts accepts ids that
\* are not registered, and add_edge makes them nodes of the graph.
C35_GraphMirrorsLedger ==
  /\ GraphEdges(G) = TrustPairs(avatars)
  /\ G.nodes = DOMAIN avatars.balance

\* C36: the ids HubAgent hands out are strictly increasing and never reused,
\* also after a failed invite or register: every registered id has been
\* handed out, the id of a register_new_human or invite_human call is the
\* counter after the call and above every id registered before, so no
\* account is registered twice, and population_size is the number of
\* registered accounts.
C36_IdsNeverReused ==
  /\ \A h \in DOMAIN avatars.balance : h >= 1 /\ h <= next_human_id
  /\ avatars.population_size = Cardinality(DOMAIN avatars.balance)
  /\ last.op \in {"register_new_human", "invite_human"} =>
        /\ last.a = next_human_id
        /\ \A h \in DOMAIN pre.balance : h < last.a
        /\ last.raised = "none" => DOMAIN avatars.balance = DOMAIN pre.balance \cup {last.a}
        /\ last.raised # "none" => DOMAIN avatars.balance = DOMAIN pre.balance

\* a human registered after an invite has failed: the id of the failed
\* invite stays unused
C36_RegisteredAfterFailedInvite ==
  /\ last.op = "register_new_human"
  /\ last.raised = "none"
  /\ last.a = 4
  /\ DOMAIN avatars.balance = {1, 2, 4}
  /\ avatars.population_size = 3

\* C37: after any sequence of register, mint, burn and transfer the latest
\* recorded supply of every account is at least zero: a burn that passes
\* the balance check never drives the supply below zero.
C37_SupplyNeverNegative ==
  \A h \in DOMAIN avatars.supply : ZGe(Latest(avatars.supply[h]), Z0)

====
